---- MODULE Spec2Model ----
(***************************************************************************)
(* PantryPal api-gateway: shared recipe catalog, per-user preferences,     *)
(* recipe import, pantry matching and the shared-household migration.      *)
(*                                                                         *)
(* Store: table recipes (models.py Recipe plus the legacy user_id column   *)
(* the import service reads and writes, kept by database.py:316) and       *)
(* table user_recipe_preferences (models.py UserRecipePreference).         *)
(* Every request runs in its own SQLAlchemy session (database.py get_db),  *)
(* modelled as a process with a program counter and local variables.       *)
(***************************************************************************)
EXTENDS Integers, Sequences, FiniteSets, TLC

(* ---------- nullable columns ---------- *)
None == <<>>
Some(v) == <<v>>
IsNull(o) == o = None
Val(o) == o[1]

(* ---------- bounds of the model ---------- *)
MaxLegacy == 3
MaxRecipes == 4
MaxPrefs == 7
MaxBatch == 2
MaxClock == 6
MaxRequests == 2

Users == {"u1", "u2"}
Procs == {"p1", "p2"}
Providers == {"mealie"}

VARIABLES users, recipes, prefs, uq_external_recipe, mig, nextRid, nextPid, clock,
          pc, loc, ret, started

vars == <<users, recipes, prefs, uq_external_recipe, mig, nextRid, nextPid, clock,
          pc, loc, ret, started>>

(* ---------- rows ---------- *)

\* UserRecipePreference column defaults of a row inserted with only
\* user_id and recipe_id set.  Every column but the two ids is nullable.
DefaultMatch ==
  [ match_percentage |-> None, uses_expiring_items |-> Some(FALSE),
    expiring_ingredient_count |-> Some(0), available_ingredient_count |-> Some(0),
    missing_ingredient_count |-> Some(0),
    missing_ingredients |-> None, expiring_ingredients |-> None ]

DefaultOwned ==
  [ favorite |-> Some(FALSE), notes |-> None, times_cooked |-> Some(0), last_cooked |-> None ]

\* A preference row.  tx is the process whose open transaction inserted the
\* row and has not committed yet, or None for a committed row.
PrefRow(id, u, r, owned, match, tx) ==
  [ id |-> id, user_id |-> u, recipe_id |-> r, owned |-> owned, match |-> match, tx |-> tx ]

Committed(P) == { p \in P : IsNull(p.tx) }

\* Rows a session sees: committed rows and the rows of its own transaction.
Visible(P, self) == { p \in P : IsNull(p.tx) \/ p.tx = Some(self) }

\* Variant: the preference query filters on recipe_id alone.
FindPrefAnyUser(P, u, r) == { p \in P : p.recipe_id = r }

\* Query(UserRecipePreference).filter(user_id, recipe_id).first()
FindPref(P, u, r) == { p \in P : p.user_id = u /\ p.recipe_id = r }

\* True when the pair names a full external key (both columns non-null).
HasKey(row) == ~IsNull(row.external_provider) /\ ~IsNull(row.external_id)

SameKey(a, b) ==
  a.external_provider = b.external_provider /\ a.external_id = b.external_id

(***************************************************************************)
(* Strings.  The text functions work on tuples of one-character strings,   *)
(* as the Python code works on characters.  Rows, records and snapshots    *)
(* hold a name as a string; Chars gives its characters.                    *)
(***************************************************************************)
Chars(name) ==
  CASE name = "" -> <<>>
    [] name = "Whole Milk" -> <<"W","h","o","l","e"," ","M","i","l","k">>
    [] name = "Eggs" -> <<"E","g","g","s">>
    [] name = "Sugar" -> <<"S","u","g","a","r">>
    [] name = "milk" -> <<"m","i","l","k">>
    [] name = "egg" -> <<"e","g","g">>
    [] name = "flour" -> <<"f","l","o","u","r">>
    [] name = "Flour" -> <<"F","l","o","u","r">>
    [] name = "Fresh" -> <<"F","r","e","s","h">>
    [] name = "Oil" -> <<"O","i","l">>
    [] name = "Sesame Oil" -> <<"S","e","s","a","m","e"," ","O","i","l">>
    [] name = "Walnut Oil" -> <<"W","a","l","n","u","t"," ","O","i","l">>

UpperChars == <<"A","B","C","D","E","F","G","H","I","J","K","L","M",
                "N","O","P","Q","R","S","T","U","V","W","X","Y","Z">>
LowerChars == <<"a","b","c","d","e","f","g","h","i","j","k","l","m",
                "n","o","p","q","r","s","t","u","v","w","x","y","z">>
Digits == {"0","1","2","3","4","5","6","7","8","9"}

\* The \w class of the re module (ASCII part).
IsWordChar(c) ==
  \/ \E i \in 1..26 : c = LowerChars[i] \/ c = UpperChars[i]
  \/ c \in Digits
  \/ c = "_"

IsSpace(c) == c = " "

\* str.lower()
LowerChar(c) ==
  IF \E i \in 1..26 : c = UpperChars[i]
  THEN LowerChars[CHOOSE i \in 1..26 : c = UpperChars[i]]
  ELSE c

Lower(s) == [i \in 1..Len(s) |-> LowerChar(s[i])]

RECURSIVE LStrip(_)
LStrip(s) == IF s # <<>> /\ IsSpace(Head(s)) THEN LStrip(Tail(s)) ELSE s

RECURSIVE RStrip(_)
RStrip(s) ==
  IF s # <<>> /\ IsSpace(s[Len(s)]) THEN RStrip(SubSeq(s, 1, Len(s) - 1)) ELSE s

\* str.strip()
Strip(s) == RStrip(LStrip(s))

\* s[i:i+len(w)] == w
MatchAt(s, i, w) ==
  /\ i + Len(w) - 1 <= Len(s)
  /\ \A k \in 1..Len(w) : s[i + k - 1] = w[k]

\* needle in haystack (str.__contains__); the empty string is in every string
IsSubstr(needle, hay) ==
  \E i \in 1..(Len(hay) + 1) : MatchAt(hay, i, needle)

EndsWith(s, suffix) ==
  Len(suffix) <= Len(s) /\ MatchAt(s, Len(s) - Len(suffix) + 1, suffix)

\* A word boundary \b between positions i-1 and i of s.
Boundary(s, i) ==
  LET before == i > 1 /\ IsWordChar(s[i - 1])
      after  == i <= Len(s) /\ IsWordChar(s[i])
  IN before # after

\* re.sub(rf'\b{w}\b', '', s): the non-overlapping matches, left to right.
RECURSIVE RemoveWordFrom(_, _, _)
RemoveWordFrom(s, w, i) ==
  IF i > Len(s) THEN <<>>
  ELSE IF MatchAt(s, i, w) /\ Boundary(s, i) /\ Boundary(s, i + Len(w))
       THEN RemoveWordFrom(s, w, i + Len(w))
       ELSE <<s[i]>> \o RemoveWordFrom(s, w, i + 1)

RemoveWord(s, w) == RemoveWordFrom(s, w, 1)

remove_words ==
  << <<"f","r","e","s","h">>,
     <<"o","r","g","a","n","i","c">>,
     <<"w","h","o","l","e">>,
     <<"e","x","t","r","a">>,
     <<"v","i","r","g","i","n">>,
     <<"r","a","w">>,
     <<"f","r","e","e","-","r","a","n","g","e">>,
     <<"g","r","a","s","s","-","f","e","d">>,
     <<"w","i","l","d","-","c","a","u","g","h","t">>,
     <<"c","a","n","n","e","d">>,
     <<"d","r","i","e","d">>,
     <<"f","r","o","z","e","n">>,
     <<"c","h","o","p","p","e","d">>,
     <<"s","l","i","c","e","d">>,
     <<"d","i","c","e","d">>,
     <<"m","i","n","c","e","d">>,
     <<"c","r","u","s","h","e","d">>,
     <<"u","n","s","a","l","t","e","d">>,
     <<"s","a","l","t","e","d">>,
     <<"s","w","e","e","t","e","n","e","d">>,
     <<"u","n","s","w","e","e","t","e","n","e","d">>,
     <<"l","o","w","-","f","a","t">>,
     <<"f","a","t","-","f","r","e","e">>,
     <<"r","e","d","u","c","e","d">>,
     <<"l","i","g","h","t">>,
     <<"h","e","a","v","y">>,
     <<"p","u","r","e">>,
     <<"n","a","t","u","r","a","l">> >>

\* for word in remove_words: normalized = re.sub(...)
RECURSIVE RemoveWords(_, _)
RemoveWords(s, k) ==
  IF k > Len(remove_words) THEN s
  ELSE RemoveWords(RemoveWord(s, remove_words[k]), k + 1)

\* Position of the first ")" at or after i, or 0.
RECURSIVE FindClose(_, _)
FindClose(s, i) ==
  IF i > Len(s) THEN 0 ELSE IF s[i] = ")" THEN i ELSE FindClose(s, i + 1)

\* re.sub(r'\([^)]*\)', '', s)
RECURSIVE RemoveParensFrom(_, _)
RemoveParensFrom(s, i) ==
  IF i > Len(s) THEN <<>>
  ELSE IF s[i] = "(" /\ FindClose(s, i + 1) # 0
       THEN RemoveParensFrom(s, FindClose(s, i + 1) + 1)
       ELSE <<s[i]>> \o RemoveParensFrom(s, i + 1)

RemoveParens(s) == RemoveParensFrom(s, 1)

\* str.split(): the maximal runs of non-whitespace characters.
RECURSIVE SplitFrom(_, _, _)
SplitFrom(s, i, cur) ==
  IF i > Len(s) THEN (IF cur = <<>> THEN <<>> ELSE <<cur>>)
  ELSE IF IsSpace(s[i])
       THEN (IF cur = <<>> THEN <<>> ELSE <<cur>>) \o SplitFrom(s, i + 1, <<>>)
       ELSE SplitFrom(s, i + 1, Append(cur, s[i]))

Split(s) == SplitFrom(s, 1, <<>>)

\* ' '.join(words)
RECURSIVE Join(_)
Join(ws) ==
  IF ws = <<>> THEN <<>>
  ELSE IF Len(ws) = 1 THEN ws[1]
  ELSE ws[1] \o <<" ">> \o Join(Tail(ws))

\* The singularization branch of _normalize_ingredient_name.
Singularize(s) ==
  IF EndsWith(s, <<"i","e","s">>) THEN SubSeq(s, 1, Len(s) - 3) \o <<"y">>
  ELSE IF EndsWith(s, <<"e","s">>) THEN SubSeq(s, 1, Len(s) - 2)
  ELSE IF EndsWith(s, <<"s">>) /\ Len(s) > 3 THEN SubSeq(s, 1, Len(s) - 1)
  ELSE s

_normalize_ingredient_name(name) ==
  Strip(Singularize(Join(Split(RemoveParens(RemoveWords(Strip(Lower(name)), 1))))))

(***************************************************************************)
(* RecipeMatcher: pantry normalization, expiry window, fuzzy match and the *)
(* per-recipe match record.                                                *)
(***************************************************************************)

\* item.get('product_name', '') or item.get('name', '')
ItemName(item) ==
  IF ~IsNull(item.product_name) /\ Val(item.product_name) # ""
  THEN Chars(Val(item.product_name))
  ELSE IF IsNull(item.name) THEN <<>> ELSE Chars(Val(item.name))

\* Set of normalized names of the pantry items that have a name.
_normalize_pantry_items(pantry_items) ==
  { _normalize_ingredient_name(ItemName(pantry_items[i])) :
      i \in { j \in 1..Len(pantry_items) : ItemName(pantry_items[j]) # <<>> } }

\* An expiry_date is None, or Some of a record: kind "date" is the ISO text
\* of a date, day is the day of that date counted from today; kind "date_z"
\* is such a text followed by 'Z'; kind "bad" is a string that is no date;
\* kind "number" is a value that is not a string.
\* Variant: the text is parsed as it is, a trailing 'Z' included.
ExpiryParsesAsWritten(e) == e.kind = "date"

\* expiry_str.replace('Z', '')
RemoveZ(e) == IF e.kind = "date_z" THEN [ e EXCEPT !.kind = "date" ] ELSE e

\* datetime.fromisoformat(expiry_str.replace('Z', '')) returns: a value
\* without replace raises AttributeError, a text that is no date ValueError,
\* and both are caught.
ExpiryParses(e) == e.kind # "number" /\ RemoveZ(e).kind = "date"

\* expiry_date <= now + timedelta(days = days_threshold): a date parses to
\* midnight of its day, now is a moment of day 0.
_get_expiring_items(pantry_items, days_threshold) ==
  { _normalize_ingredient_name(ItemName(pantry_items[i])) :
      i \in { j \in 1..Len(pantry_items) :
                /\ ~IsNull(pantry_items[j].expiry_date)
                /\ ExpiryParses(Val(pantry_items[j].expiry_date))
                /\ Val(pantry_items[j].expiry_date).day <= days_threshold
                /\ ItemName(pantry_items[j]) # <<>> } }

\* set(s.split())
WordSet(s) == { Split(s)[i] : i \in 1..Len(Split(s)) }

\* overlap / len(ingredient_words) >= 0.5
WordOverlap(ingredient_words, pantry_item) ==
  /\ Cardinality(ingredient_words) > 0
  /\ 2 * Cardinality(ingredient_words \cap WordSet(pantry_item))
       >= Cardinality(ingredient_words)

\* Variant: the reverse partial match is tried before the partial match.
FuzzyReverseFirst(ingredient_name, pantry_ingredients) ==
  LET n == _normalize_ingredient_name(ingredient_name)
      partial == { p \in pantry_ingredients : IsSubstr(p, n) }
      reverse == { p \in pantry_ingredients : IsSubstr(n, p) }
      words   == { p \in pantry_ingredients : WordOverlap(WordSet(n), p) }
  IN IF n \in pantry_ingredients THEN { Some(n) }
     ELSE IF reverse # {} THEN { Some(p) : p \in reverse }
     ELSE IF partial # {} THEN { Some(p) : p \in partial }
     ELSE IF words # {} THEN { Some(p) : p \in words }
     ELSE { None }

\* The values _fuzzy_match_ingredient can return: Some(pantry name) or None.
\* The three loops iterate a Python set, whose order is not fixed, so a loop
\* returns any pantry name that passes its test.
_fuzzy_match_ingredient(ingredient_name, pantry_ingredients) ==
  LET n == _normalize_ingredient_name(ingredient_name)
      partial == { p \in pantry_ingredients : IsSubstr(p, n) }
      reverse == { p \in pantry_ingredients : IsSubstr(n, p) }
      words   == { p \in pantry_ingredients : WordOverlap(WordSet(n), p) }
  IN IF n \in pantry_ingredients THEN { Some(n) }
     ELSE IF partial # {} THEN { Some(p) : p \in partial }
     ELSE IF reverse # {} THEN { Some(p) : p \in reverse }
     ELSE IF words # {} THEN { Some(p) : p \in words }
     ELSE { None }

\* Python truth value of the returned Optional[str]: None and '' are false.
Truthy(m) == ~IsNull(m) /\ Val(m) # <<>>

\* ingredient.get('name', '').lower()
IngredientName(ingredient) ==
  IF IsNull(ingredient.name) THEN <<>> ELSE Lower(Chars(Val(ingredient.name)))

\* Variant: the dict carries the normalized name of the ingredient.
EntryAsMatched(ingredient) ==
  [ name |-> IF ingredient.name = Some("Whole Milk") THEN Some("milk")
             ELSE IF ingredient.name = Some("Eggs") THEN Some("egg")
             ELSE ingredient.name,
    quantity |-> ingredient.quantity, unit |-> ingredient.unit ]

\* The {'name', 'quantity', 'unit'} dict appended to the result lists.
Entry(ingredient) ==
  [ name |-> ingredient.name, quantity |-> ingredient.quantity, unit |-> ingredient.unit ]

\* Variant: the quotient is cut off instead of rounded.
TruncDiv(x, n) == x \div n

\* round(x / n, 0) for integers, ties to even (Python round)
RoundDiv(x, n) ==
  LET q == x \div n
      r == x % n
  IN IF 2 * r > n \/ (2 * r = n /\ q % 2 = 1) THEN q + 1 ELSE q

\* The loop of _match_recipe over recipe_ingredients[k..]: the set of
\* <<available_count, missing_ingredients, expiring_ingredients>> it can end with.
RECURSIVE MatchLoop(_, _, _, _, _)
MatchLoop(ings, k, pantry_ingredients, expiring_items, acc) ==
  IF k > Len(ings) THEN { acc }
  ELSE UNION {
         MatchLoop(ings, k + 1, pantry_ingredients, expiring_items,
           IF Truthy(m)
           THEN << acc[1] + 1, acc[2],
                   IF Val(m) \in expiring_items
                   THEN Append(acc[3], Entry(ings[k])) ELSE acc[3] >>
           ELSE << acc[1], Append(acc[2], Entry(ings[k])), acc[3] >>) :
         m \in _fuzzy_match_ingredient(IngredientName(ings[k]), pantry_ingredients) }

\* match_percentage is kept in hundredths (DECIMAL(5, 2)): 66.67 is 6667.
MatchRecord(total, acc) ==
  [ match_percentage |-> RoundDiv(acc[1] * 10000, total),
    available_count |-> acc[1],
    missing_count |-> Len(acc[2]),
    expiring_count |-> Len(acc[3]),
    missing_ingredients |-> acc[2],
    expiring_ingredients |-> acc[3],
    uses_expiring_items |-> Len(acc[3]) > 0 ]

EmptyMatchRecord ==
  [ match_percentage |-> 0, available_count |-> 0, missing_count |-> 0,
    expiring_count |-> 0, missing_ingredients |-> <<>>,
    expiring_ingredients |-> <<>>, uses_expiring_items |-> FALSE ]

\* The records _match_recipe can return for recipe.ingredients (None is a
\* null column: recipe.ingredients or []).
_match_recipe(ingredients, pantry_ingredients, expiring_items) ==
  LET ings == IF IsNull(ingredients) THEN <<>> ELSE Val(ingredients)
  IN IF Len(ings) = 0 THEN { EmptyMatchRecord }
     ELSE { MatchRecord(Len(ings), acc) :
              acc \in MatchLoop(ings, 1, pantry_ingredients, expiring_items,
                                << 0, <<>>, <<>> >>) }

\* The cached match columns _update_user_preference writes from a match record.
MatchColumns(match_result) ==
  [ match_percentage |-> Some(match_result.match_percentage),
    uses_expiring_items |-> Some(match_result.uses_expiring_items),
    expiring_ingredient_count |-> Some(match_result.expiring_count),
    available_ingredient_count |-> Some(match_result.available_count),
    missing_ingredient_count |-> Some(match_result.missing_count),
    missing_ingredients |-> Some(match_result.missing_ingredients),
    expiring_ingredients |-> Some(match_result.expiring_ingredients) ]

(***************************************************************************)
(* The shared-household migration (database.py), run by init_db at start.  *)
(* mig = "legacy": nothing migrated yet; "prefs": step 2 committed;        *)
(* "done": the dedup pass committed and the completion marker is set.      *)
(***************************************************************************)

\* val or 0
OrZero(o) == IF IsNull(o) THEN 0 ELSE Val(o)

\* val or False
OrFalse(o) == IF IsNull(o) THEN FALSE ELSE Val(o)

\* to_json_str followed by the JSON column's parse: None stays NULL, any
\* other value is stored as the same JSON value.
to_json_str(o) == IF IsNull(o) THEN None ELSE Some(Val(o))

\* The parameters of the INSERT INTO user_recipe_preferences statements.
InsertParams(id, u, r, owned, match) ==
  PrefRow(id, u, r,
    [ favorite |-> owned.favorite, notes |-> owned.notes,
      times_cooked |-> Some(OrZero(owned.times_cooked)), last_cooked |-> owned.last_cooked ],
    [ match_percentage |-> match.match_percentage,
      uses_expiring_items |-> Some(OrFalse(match.uses_expiring_items)),
      expiring_ingredient_count |-> Some(OrZero(match.expiring_ingredient_count)),
      available_ingredient_count |-> Some(OrZero(match.available_ingredient_count)),
      missing_ingredient_count |-> Some(OrZero(match.missing_ingredient_count)),
      missing_ingredients |-> to_json_str(match.missing_ingredients),
      expiring_ingredients |-> to_json_str(match.expiring_ingredients) ],
    None)

\* INSERT ... ON CONFLICT (user_id, recipe_id) DO NOTHING
InsertOnConflictDoNothing(P, row) ==
  IF FindPref(P, row.user_id, row.recipe_id) # {} THEN P ELSE P \cup { row }

\* A sequence listing the rows of set S by ascending f (f is one-to-one on S).
RECURSIVE OrderBy(_, _)
OrderBy(S, f) ==
  IF S = {} THEN <<>>
  ELSE LET first == CHOOSE x \in S : \A y \in S : f[x.id] <= f[y.id]
       IN <<first>> \o OrderBy(S \ { first }, f)

\* Variant: the rows of a group ordered by id instead of by created_at.
CreatedAtAsId(R) == [ i \in { r.id : r \in R } |-> i ]

CreatedAt(R) == [ i \in { r.id : r \in R } |-> (CHOOSE r \in R : r.id = i).created_at ]
ById(R) == [ i \in { r.id : r \in R } |-> i ]

\* UPDATE recipes SET imported_by_user_id = user_id
\*   WHERE imported_by_user_id IS NULL
CopyUserId(r) ==
  [ r EXCEPT !.imported_by_user_id = IF IsNull(@) THEN r.user_id ELSE @ ]

\* Step 2, lines 193-236: one preference row per legacy recipe row that has
\* an owner, carrying the user-specific columns of the recipe row.  st is
\* <<preference rows, next preference id>>.
RECURSIVE MigrateLoop(_, _, _)
MigrateLoop(rows, k, st) ==
  IF k > Len(rows) THEN st
  ELSE MigrateLoop(rows, k + 1,
         << InsertOnConflictDoNothing(st[1],
              InsertParams(st[2], Val(rows[k].user_id), rows[k].id,
                           rows[k].legacy.owned, rows[k].legacy.match)),
            st[2] + 1 >>)

MigratePrefs ==
  /\ mig = "legacy"
  /\ recipes' = { CopyUserId(r) : r \in recipes }
  /\ LET owned == { r \in recipes : ~IsNull(r.user_id) }
         st == MigrateLoop(OrderBy(owned, ById(owned)), 1, << prefs, nextPid >>)
     IN /\ prefs' = st[1]
        /\ nextPid' = st[2]
  /\ mig' = "prefs"
  /\ UNCHANGED <<users, uq_external_recipe, nextRid, clock, pc, loc, ret, started>>

\* GROUP BY external_provider, external_id HAVING COUNT(*) > 1 over the rows
\* with both columns non-null: the set of groups (sets of rows).
DupeGroups(R) ==
  { g \in { { x \in R : HasKey(x) /\ SameKey(x, r) } : r \in { y \in R : HasKey(y) } } :
      Cardinality(g) > 1 }

\* Lines 259-310 for one del_id: re-home its preference rows onto keep_id,
\* then delete them and the duplicate recipe.  st is <<recipes, prefs, next id>>.
RECURSIVE RehomeLoop(_, _, _, _)
RehomeLoop(rows, k, keep_id, st) ==
  IF k > Len(rows) THEN st
  ELSE RehomeLoop(rows, k + 1, keep_id,
         << InsertOnConflictDoNothing(st[1],
              InsertParams(st[2], rows[k].user_id, keep_id, rows[k].owned, rows[k].match)),
            st[2] + 1 >>)

\* Variant: the duplicate recipe is deleted, its preference rows are not.
DeleteDuplicateKeepPrefs(st, keep_id, del_id) ==
  LET moving == { p \in st[2] : p.recipe_id = del_id }
      re == RehomeLoop(OrderBy(moving, ById(moving)), 1, keep_id, << st[2], st[3] >>)
  IN << { r \in st[1] : r.id # del_id }, re[1], re[2] >>

DeleteDuplicate(st, keep_id, del_id) ==
  LET moving == { p \in st[2] : p.recipe_id = del_id }
      re == RehomeLoop(OrderBy(moving, ById(moving)), 1, keep_id, << st[2], st[3] >>)
  IN << { r \in st[1] : r.id # del_id },
        { p \in re[1] : p.recipe_id # del_id },
        re[2] >>

RECURSIVE DeleteLoop(_, _, _)
DeleteLoop(recipe_ids, k, st) ==
  IF k > Len(recipe_ids) THEN st
  ELSE DeleteLoop(recipe_ids, k + 1, DeleteDuplicate(st, recipe_ids[1].id, recipe_ids[k].id))

\* for dupe in dupes: recipe_ids is array_agg(id ORDER BY created_at).
RECURSIVE DedupLoop(_, _)
DedupLoop(groups, st) ==
  IF groups = {} THEN st
  ELSE LET g == CHOOSE x \in groups : TRUE
       IN DedupLoop(groups \ { g }, DeleteLoop(OrderBy(g, CreatedAt(g)), 2, st))

\* Step 3, lines 239-312, and the completion marker of step 5.
DedupPass ==
  /\ mig = "prefs"
  /\ LET st == DedupLoop(DupeGroups(recipes), << recipes, prefs, nextPid >>)
     IN /\ recipes' = { r : r \in st[1] }
        /\ prefs' = { p : p \in st[2] }
        /\ nextPid' = st[3]
  /\ mig' = "done"
  /\ UNCHANGED <<users, uq_external_recipe, nextRid, clock, pc, loc, ret, started>>

(***************************************************************************)
(* Sample data: the names, ingredient lists, pantry snapshots and provider *)
(* records the operations draw their inputs from.                          *)
(***************************************************************************)
Ingredient(n) == [ name |-> Some(n), quantity |-> 1, unit |-> "cup" ]

Ingredients1 == << Ingredient("Whole Milk"), Ingredient("Eggs"), Ingredient("Sugar") >>
Ingredients2 == << Ingredient("Sugar") >>

PantryItem(n, e) == [ product_name |-> None, name |-> Some(n), expiry_date |-> e ]
Date(d) == Some([ kind |-> "date", day |-> d ])

Pantries ==
  { << PantryItem("milk", Date(2)), PantryItem("egg", Date(10)), PantryItem("flour", None) >>,
    << >> }

ExpiringDays == { 7 }

\* A normalized provider record (the fields the catalog keeps).
Record(prov, ext, n, ings) ==
  [ provider |-> prov, external_id |-> ext, name |-> n, ingredients |-> ings ]

\* The records a provider can deliver: a new version of recipe e1, and e2.
RecordsOf(prov) ==
  { Record(prov, "e1", "Crepes", Ingredients2),
    Record(prov, "e2", "Waffles", Ingredients2) }

(***************************************************************************)
(* Legacy tables: the recipes rows a database holds before the migration.  *)
(* The legacy record of a row is its user-specific columns.                *)
(***************************************************************************)
PlainLegacy ==
  [ owned |-> [ favorite |-> Some(FALSE), notes |-> None,
                times_cooked |-> None, last_cooked |-> None ],
    match |-> [ match_percentage |-> None, uses_expiring_items |-> None,
                expiring_ingredient_count |-> None, available_ingredient_count |-> None,
                missing_ingredient_count |-> None,
                missing_ingredients |-> None, expiring_ingredients |-> None ] ]

\* Annotated columns, distinct for distinct rows i.
RichLegacy(i) ==
  [ owned |-> [ favorite |-> Some(TRUE), notes |-> Some(<<"legacy note", i>>),
                times_cooked |-> Some(i), last_cooked |-> Some(i) ],
    match |-> [ match_percentage |-> Some(2500 * i), uses_expiring_items |-> Some(TRUE),
                expiring_ingredient_count |-> Some(1), available_ingredient_count |-> Some(i),
                missing_ingredient_count |-> Some(1),
                missing_ingredients |-> Some(<< Entry(Ingredient("Sugar")) >>),
                expiring_ingredients |-> Some(<< >>) ] ]

LegacyKeys ==
  { << None, None >>, << Some("mealie"), None >>,
    << Some("mealie"), Some("e1") >>, << Some("tandoor"), Some("e1") >> }

RecipeRow(id, u, key, n, ings, created, legacy) ==
  [ id |-> id, user_id |-> u, imported_by_user_id |-> None,
    external_provider |-> key[1], external_id |-> key[2],
    name |-> n, ingredients |-> ings, created_at |-> created, legacy |-> legacy ]

\* The legacy tables of n rows: any owner, key and annotation per row; the
\* rows were created in ascending or in descending order of their ids.
LegacyTables(n) ==
  { { RecipeRow(i, Some(f[i][1]), f[i][2], "Pancakes", Some(Ingredients1),
                IF asc THEN i ELSE n + 1 - i,
                IF f[i][3] THEN RichLegacy(i) ELSE PlainLegacy) : i \in 1..n } :
      f \in [ 1..n -> Users \X LegacyKeys \X BOOLEAN ], asc \in BOOLEAN }

\* The results _match_recipe can give for a recipe against a pantry: the
\* pantry sets as calculate_matches computes them, tabulated over the
\* sample data.
IngredientLists == { Some(Ingredients1), Some(Ingredients2) }

MatchTable ==
  { << x, _match_recipe(x[1], _normalize_pantry_items(x[2]),
                        _get_expiring_items(x[2], x[3])) >> :
      x \in IngredientLists \X Pantries \X ExpiringDays }

MatchResults(ingredients, pantry_items, expiring_days) ==
  (CHOOSE t \in MatchTable : t[1] = << ingredients, pantry_items, expiring_days >>)[2]

Idle == [ op |-> "none" ]
NoResult == [ kind |-> "none" ]

InitCommon ==
  /\ users = Users
  /\ prefs = {}
  /\ mig = "legacy"
  /\ nextPid = 1
  /\ pc = [ p \in Procs |-> "idle" ]
  /\ loc = [ p \in Procs |-> Idle ]
  /\ ret = [ p \in Procs |-> NoResult ]
  /\ started = 0

\* create_all creates the tables that are missing and leaves an existing
\* table as it is: a recipes table made by create_all carries
\* uq_external_recipe, a table that held legacy rows does not.
CreateAll(R) == R = {}

\* Migration only, from every legacy table of at most MaxLegacy rows.
InitMig ==
  /\ \E n \in 0..MaxLegacy : recipes \in LegacyTables(n) /\ nextRid = n + 1 /\ clock = n + 1
  /\ uq_external_recipe = CreateAll(recipes)
  /\ InitCommon

NextMig == MigratePrefs \/ DedupPass

SpecMig == InitMig /\ [][NextMig]_vars

(***************************************************************************)
(* RecipeImportService.import_recipes: one run per process, one record    *)
(* per pair of steps (the lookup, then the update or the insert).          *)
(***************************************************************************)
\* A request goes to the first idle worker, while the request budget lasts.
Dispatch(self) ==
  /\ started < MaxRequests
  /\ \A p \in Procs : (p = "p1" /\ self = "p2") => pc[p] # "idle"

Set(p, l) == [ loc EXCEPT ![p] = l ]
Goto(p, label) == [ pc EXCEPT ![p] = label ]

ZeroStats(n) ==
  [ total_fetched |-> n, imported |-> 0, updated |-> 0, failed |-> 0,
    skipped |-> 0, errors |-> <<>> ]

\* The batches fetch_recipes can return: at most MaxBatch records of the
\* provider, no external id twice.
Batches(prov) ==
  UNION { { b \in [ 1..n -> RecordsOf(prov) ] :
              \A i, j \in 1..n : b[i].external_id = b[j].external_id => i = j } :
          n \in 1..MaxBatch }

ImportStart(self, u, prov, batch) ==
  /\ pc[self] = "idle"
  /\ u \in users
  /\ mig = "done"
  /\ Dispatch(self)
  /\ started' = started + 1
  /\ UNCHANGED <<users, uq_external_recipe>>
  /\ loc' = Set(self, [ op |-> "import", user_id |-> u, provider |-> prov,
                        recipes |-> batch, i |-> 1, stats |-> ZeroStats(Len(batch)),
                        status |-> <<>>, existing |-> 0, rollback_pending |-> FALSE ])
  /\ pc' = Goto(self, "import_find")
  /\ UNCHANGED ret
  /\ UNCHANGED <<recipes, prefs, mig, nextRid, nextPid, clock>>

\* Query(Recipe).filter(user_id, external_provider, external_id): the ids found.
_find_existing_recipe(R, user_id, provider, external_id) ==
  { r.id : r \in { x \in R : /\ x.user_id = Some(user_id)
                             /\ x.external_provider = Some(provider)
                             /\ x.external_id = Some(external_id) } }

\* The except branch of the loop of import_recipes, and the step to the next record.
RecordFailed(l, error) ==
  [ l EXCEPT !.stats.failed = @ + 1,
             !.stats.errors = Append(@, error),
             !.status = Append(@, "failed"),
             !.i = @ + 1, !.existing = 0 ]

RecordDone(l, status) ==
  [ l EXCEPT !.stats.imported = IF status = "imported" THEN @ + 1 ELSE @,
             !.stats.updated = IF status = "updated" THEN @ + 1 ELSE @,
             !.stats.skipped = IF status = "skipped" THEN @ + 1 ELSE @,
             !.status = Append(@, status),
             !.i = @ + 1, !.existing = 0 ]

AfterRecord(l) == IF l.i > Len(l.recipes) THEN "import_finish" ELSE "import_find"

\* _import_recipe up to the lookup.  A session whose flush failed refuses
\* every statement until rollback(), which the service never calls.
ImportFind(self) ==
  /\ pc[self] = "import_find"
  /\ LET l == loc[self]
         rec == l.recipes[l.i]
         found == _find_existing_recipe(recipes, l.user_id, rec.provider, rec.external_id)
     IN IF l.rollback_pending
        THEN LET l2 == RecordFailed(l, "PendingRollbackError")
             IN loc' = Set(self, l2) /\ pc' = Goto(self, AfterRecord(l2))
        ELSE /\ loc' = Set(self, [ l EXCEPT !.existing =
                         IF found = {} THEN 0 ELSE CHOOSE id \in found : \A o \in found : id <= o ])
             /\ pc' = Goto(self, "import_write")
  /\ UNCHANGED <<recipes, prefs, mig, nextRid, nextPid, clock, ret>>
  /\ UNCHANGED <<users, started, uq_external_recipe>>

\* Variant: the update deletes the row and inserts the record as a new row.
ReimportAsNewRow(row, rec) ==
  [ row EXCEPT !.id = nextRid, !.name = rec.name, !.ingredients = Some(rec.ingredients) ]

\* _update_recipe: the content of the record replaces the content of the row.
_update_recipe(row, rec) ==
  [ row EXCEPT !.name = rec.name, !.ingredients = Some(rec.ingredients) ]

\* The INSERT is rejected: the table carries uq_external_recipe and a row
\* with the same non-null pair exists.
ViolatesExternalKey(R, row) ==
  uq_external_recipe /\ HasKey(row) /\ \E x \in R : HasKey(x) /\ SameKey(x, row)

NewRecipe(id, u, rec, now) ==
  RecipeRow(id, Some(u), << Some(rec.provider), Some(rec.external_id) >>,
            rec.name, Some(rec.ingredients), now, PlainLegacy)

\* _import_recipe after the lookup: update and commit, or add, flush and commit.
ImportWrite(self) ==
  /\ pc[self] = "import_write"
  /\ LET l == loc[self]
         rec == l.recipes[l.i]
         row == NewRecipe(nextRid, l.user_id, rec, clock)
     IN IF l.existing # 0
        THEN /\ recipes' = { IF r.id = l.existing THEN _update_recipe(r, rec) ELSE r : r \in recipes }
             /\ LET l2 == RecordDone(l, "updated")
                IN loc' = Set(self, l2) /\ pc' = Goto(self, AfterRecord(l2))
             /\ UNCHANGED <<nextRid, clock>>
        ELSE IF ViolatesExternalKey(recipes, row)
        THEN /\ LET l2 == RecordFailed([ l EXCEPT !.rollback_pending = TRUE ], "IntegrityError")
                IN loc' = Set(self, l2) /\ pc' = Goto(self, AfterRecord(l2))
             /\ UNCHANGED <<recipes, nextRid, clock>>
        ELSE /\ nextRid <= MaxRecipes
             /\ recipes' = recipes \cup { row }
             /\ nextRid' = nextRid + 1
             /\ UNCHANGED clock
             /\ LET l2 == RecordDone(l, "imported")
                IN loc' = Set(self, l2) /\ pc' = Goto(self, AfterRecord(l2))
  /\ UNCHANGED <<prefs, mig, nextPid, ret>>
  /\ UNCHANGED <<users, started, uq_external_recipe>>

\* _update_integration_stats and the return of import_recipes; a failing
\* statistics update lands in the outer except branch.
ImportFinish(self) ==
  /\ pc[self] = "import_finish"
  /\ LET l == loc[self]
         stats == IF l.rollback_pending
                  THEN [ l.stats EXCEPT !.failed = l.stats.total_fetched,
                                        !.errors = Append(@, "PendingRollbackError") ]
                  ELSE l.stats
     IN ret' = [ ret EXCEPT ![self] =
                   [ kind |-> "import", user_id |-> l.user_id,
                     status |-> l.status, stats |-> stats ] ]
  /\ loc' = Set(self, Idle)
  /\ pc' = Goto(self, "idle")
  /\ UNCHANGED <<recipes, prefs, mig, nextRid, nextPid, clock>>
  /\ UNCHANGED <<users, started, uq_external_recipe>>

Import(self) ==
  \/ \E u \in Users, prov \in Providers : \E batch \in Batches(prov) :
       ImportStart(self, u, prov, batch)
  \/ ImportFind(self)
  \/ ImportWrite(self)
  \/ ImportFinish(self)

(***************************************************************************)
(* routes/recipes.py: toggle_favorite, update_recipe_notes, mark_cooked.   *)
(* Each request reads (recipe check, preference lookup), then writes.      *)
(***************************************************************************)
\* The recipe ids a request can name: the rows of the catalog and one id
\* that names no row.
RecipeIds == { x.id : x \in recipes } \cup { nextRid }
NoteTexts == { <<"note", 1>> }
RouteOps == { "toggle_favorite", "update_recipe_notes", "mark_cooked" }

\* .first() of a preference query: a row or None.
First(rows) ==
  IF rows = {} THEN None
  ELSE Some(CHOOSE p \in rows : \A q \in rows : p.id <= q.id)

\* get_user_preference as session self sees the table
get_user_preference(P, self, u, r) == First(FindPref(Visible(P, self), u, r))

\* uq_user_recipe_preference: the INSERT of (u, r) by self meets a committed
\* row, or waits for the open transaction that holds an uncommitted one.
\* Variant: the table has no uniqueness constraint on (user_id, recipe_id).
PrefConflictNever(P, u, r) == FALSE

PrefConflict(P, u, r) == FindPref(Committed(P), u, r) # {}

\* ForeignKey("users.id") of user_recipe_preferences.user_id: the INSERT
\* names a user whose row is gone.
ViolatesUserKey(u) == u \notin users
PrefWait(P, self, u, r) ==
  \E p \in FindPref(P, u, r) : ~IsNull(p.tx) /\ p.tx # Some(self)

RouteStart(self, u, r, op, text) ==
  /\ pc[self] = "idle"
  /\ u \in users
  /\ mig = "done"
  /\ Dispatch(self)
  /\ started' = started + 1
  /\ UNCHANGED <<users, uq_external_recipe>>
  /\ IF \E x \in recipes : x.id = r
     THEN /\ loc' = Set(self, [ op |-> op, user_id |-> u, recipe_id |-> r, notes |-> text,
                                pref |-> get_user_preference(prefs, self, u, r) ])
          /\ pc' = Goto(self, "route_write")
          /\ UNCHANGED ret
     ELSE /\ ret' = [ ret EXCEPT ![self] =
                        [ kind |-> op, status |-> "NotFound", user_id |-> u, recipe_id |-> r ] ]
          /\ UNCHANGED <<loc, pc>>
  /\ UNCHANGED <<recipes, prefs, mig, nextRid, nextPid, clock>>

\* Variant: toggle_favorite sets the flag instead of flipping it.
AssignSetting(owned, op, text, now) ==
  IF op = "toggle_favorite" THEN [ owned EXCEPT !.favorite = Some(TRUE) ]
  ELSE IF op = "update_recipe_notes" THEN [ owned EXCEPT !.notes = Some(text) ]
  ELSE [ owned EXCEPT !.times_cooked = Some(OrZero(@) + 1), !.last_cooked = Some(now) ]

\* Variant: update_recipe_notes adds the text to the notes of the row
\* instead of replacing them (a note is <<text, revision>>).
AssignAppending(owned, op, text, now) ==
  IF op = "toggle_favorite" THEN [ owned EXCEPT !.favorite = Some(~OrFalse(@)) ]
  ELSE IF op = "update_recipe_notes"
  THEN [ owned EXCEPT !.notes =
           Some(<< text[1], text[2] + (IF IsNull(@) THEN 0 ELSE Val(@)[2]) >>) ]
  ELSE [ owned EXCEPT !.times_cooked = Some(OrZero(@) + 1), !.last_cooked = Some(now) ]

\* The assignment each handler makes to the loaded (or just inserted) row.
Assign(owned, op, text, now) ==
  IF op = "toggle_favorite" THEN [ owned EXCEPT !.favorite = Some(~OrFalse(@)) ]
  ELSE IF op = "update_recipe_notes" THEN [ owned EXCEPT !.notes = Some(text) ]
  ELSE [ owned EXCEPT !.times_cooked = Some(OrZero(@) + 1), !.last_cooked = Some(now) ]

\* The UPDATE the unit of work emits at flush: it sets the columns whose
\* value differs from the value loaded, and leaves the others as the row
\* in the table has them.
Flushed(current, loaded, assigned) ==
  [ c \in DOMAIN current |-> IF assigned[c] # loaded[c] THEN assigned[c] ELSE current[c] ]

Reply(l, status, owned) ==
  [ kind |-> l.op, status |-> status, user_id |-> l.user_id, recipe_id |-> l.recipe_id,
    notes |-> l.notes, owned |-> owned ]

\* get_or_create_user_preference after the lookup, the assignment, db.commit().
RouteWrite(self) ==
  /\ pc[self] = "route_write"
  /\ LET l == loc[self]
         now == clock
     IN IF IsNull(l.pref)
        THEN /\ ~PrefWait(prefs, self, l.user_id, l.recipe_id)
             /\ IF PrefConflict(prefs, l.user_id, l.recipe_id) \/ ViolatesUserKey(l.user_id)
                THEN /\ ret' = [ ret EXCEPT ![self] = Reply(l, "IntegrityError", None) ]
                     /\ UNCHANGED <<prefs, nextPid>>
                ELSE /\ nextPid <= MaxPrefs
                     /\ LET owned == Assign(DefaultOwned, l.op, l.notes, now)
                        IN /\ prefs' = prefs \cup
                                { PrefRow(nextPid, l.user_id, l.recipe_id, owned, DefaultMatch, None) }
                           /\ ret' = [ ret EXCEPT ![self] = Reply(l, "ok", Some(owned)) ]
                     /\ nextPid' = nextPid + 1
        ELSE LET old == Val(l.pref)
                 owned == Assign(old.owned, l.op, l.notes, now)
             IN /\ IF \E p \in prefs : p.id = old.id
                   THEN /\ prefs' = { IF p.id = old.id
                                        THEN [ p EXCEPT !.owned = Flushed(@, old.owned, owned) ]
                                        ELSE p : p \in prefs }
                        /\ ret' = [ ret EXCEPT ![self] = Reply(l, "ok", Some(owned)) ]
                   ELSE /\ ret' = [ ret EXCEPT ![self] = Reply(l, "StaleDataError", None) ]
                        /\ UNCHANGED prefs
                /\ UNCHANGED nextPid
  /\ IF loc[self].op = "mark_cooked" /\ ret'[self].status = "ok"
     THEN clock < MaxClock /\ clock' = clock + 1
     ELSE UNCHANGED clock
  /\ loc' = Set(self, Idle)
  /\ pc' = Goto(self, "idle")
  /\ UNCHANGED <<recipes, mig, nextRid>>
  /\ UNCHANGED <<users, started, uq_external_recipe>>

Route(self) ==
  \/ \E u \in Users, r \in RecipeIds, op \in RouteOps, text \in NoteTexts :
       RouteStart(self, u, r, op, text)
  \/ RouteWrite(self)

(***************************************************************************)
(* RecipeMatcher.calculate_matches (run_match): one transaction per run,   *)
(* committed after the last recipe; per recipe a lookup step and a write   *)
(* step (_get_or_create_preference, _update_user_preference).              *)
(***************************************************************************)
ZeroMatchStats(n) ==
  [ total_recipes |-> n, recipes_updated |-> 0, recipes_with_matches |-> 0,
    recipes_using_expiring |-> 0 ]

\* Query(Recipe).all(): the rows as loaded, here in ascending id.
LoadRecipes(R) ==
  LET rows == OrderBy(R, ById(R))
  IN [ k \in 1..Len(rows) |-> [ id |-> rows[k].id, ingredients |-> rows[k].ingredients ] ]

MatchStart(self, u, pantry_items, expiring_days) ==
  /\ pc[self] = "idle"
  /\ u \in users
  /\ mig = "done"
  /\ Dispatch(self)
  /\ started' = started + 1
  /\ UNCHANGED <<users, uq_external_recipe>>
  /\ LET loaded == LoadRecipes(recipes)
     IN /\ loc' = Set(self, [ op |-> "match", user_id |-> u, pantry_items |-> pantry_items,
                              expiring_days |-> expiring_days,
                              recipes |-> loaded, i |-> 1,
                              stats |-> ZeroMatchStats(Len(loaded)),
                              pref |-> None, pending |-> {} ])
        /\ pc' = Goto(self, IF Len(loaded) = 0 THEN "match_commit" ELSE "match_query")
  /\ UNCHANGED ret
  /\ UNCHANGED <<recipes, prefs, mig, nextRid, nextPid, clock>>

\* The lookup of _get_or_create_preference for the current recipe.
MatchQuery(self) ==
  /\ pc[self] = "match_query"
  /\ LET l == loc[self]
     IN loc' = Set(self, [ l EXCEPT !.pref =
                 get_user_preference(prefs, self, l.user_id, l.recipes[l.i].id) ])
  /\ pc' = Goto(self, "match_write")
  /\ UNCHANGED <<recipes, prefs, mig, nextRid, nextPid, clock, ret>>
  /\ UNCHANGED <<users, started, uq_external_recipe>>

\* Variant: a recipe counts as updated only when something matched.
CountedWhenMatched(stats, match_result) ==
  [ stats EXCEPT
      !.recipes_updated = IF match_result.match_percentage > 0 THEN @ + 1 ELSE @,
      !.recipes_with_matches = IF match_result.match_percentage > 0 THEN @ + 1 ELSE @,
      !.recipes_using_expiring = IF match_result.uses_expiring_items THEN @ + 1 ELSE @ ]

\* The counters calculate_matches updates after one recipe.
Counted(stats, match_result) ==
  [ stats EXCEPT
      !.recipes_updated = @ + 1,
      !.recipes_with_matches = IF match_result.match_percentage > 0 THEN @ + 1 ELSE @,
      !.recipes_using_expiring = IF match_result.uses_expiring_items THEN @ + 1 ELSE @ ]

\* Variant: the session writes the assignments it holds when it is closed
\* after an exception.
CommitOnClose(P, self) ==
  { LET upd == { u \in loc[self].pending : u.id = p.id }
    IN IF upd = {} THEN p
       ELSE [ p EXCEPT !.match = (CHOOSE x \in upd : TRUE).match,
                       !.tx = IF @ = Some(self) THEN None ELSE @ ] : p \in P }

\* Session.close() of get_db after an exception: the rows the transaction
\* inserted are rolled back.
Rollback(P, self) == { q : q \in { p \in P : p.tx # Some(self) } }

MatchReply(l, status, stats) ==
  [ kind |-> "match", status |-> status, user_id |-> l.user_id, stats |-> stats,
    pantry_items |-> l.pantry_items, expiring_days |-> l.expiring_days ]

\* The insert (add, flush) or the assignment of the cached match columns.
MatchWrite(self) ==
  /\ pc[self] = "match_write"
  /\ LET l == loc[self]
         rid == l.recipes[l.i].id
         more == l.i < Len(l.recipes)
     IN \E match_result \in MatchResults(l.recipes[l.i].ingredients,
                                         l.pantry_items, l.expiring_days) :
          LET l2 == [ l EXCEPT !.i = @ + 1, !.pref = None,
                               !.stats = Counted(@, match_result) ]
          IN IF IsNull(l.pref)
             THEN /\ ~PrefWait(prefs, self, l.user_id, rid)
                  /\ IF PrefConflict(prefs, l.user_id, rid) \/ ViolatesUserKey(l.user_id)
                     THEN /\ prefs' = Rollback(prefs, self)
                          /\ ret' = [ ret EXCEPT ![self] = MatchReply(l, "IntegrityError", None) ]
                          /\ loc' = Set(self, Idle)
                          /\ pc' = Goto(self, "idle")
                          /\ UNCHANGED nextPid
                     ELSE /\ nextPid <= MaxPrefs
                          /\ prefs' = prefs \cup
                               { PrefRow(nextPid, l.user_id, rid, DefaultOwned,
                                         MatchColumns(match_result), Some(self)) }
                          /\ nextPid' = nextPid + 1
                          /\ loc' = Set(self, l2)
                          /\ pc' = Goto(self, IF more THEN "match_query" ELSE "match_commit")
                          /\ UNCHANGED ret
             ELSE /\ loc' = Set(self, [ l2 EXCEPT !.pending =
                              @ \cup { [ id |-> Val(l.pref).id, loaded |-> Val(l.pref).match,
                                           match |-> MatchColumns(match_result) ] } ])
                  /\ pc' = Goto(self, IF more THEN "match_query" ELSE "match_commit")
                  /\ UNCHANGED <<prefs, nextPid, ret>>
  /\ UNCHANGED <<recipes, mig, nextRid, clock>>
  /\ UNCHANGED <<users, started, uq_external_recipe>>

\* Variant: the update of the cached match columns also clears the notes.
UpdateClearsNotes(p, u) ==
  [ p EXCEPT !.match = Flushed(@, u.loaded, u.match), !.owned.notes = None ]

\* The assignments of _update_user_preference to a loaded row p, as the
\* UPDATE at commit applies them: u holds the match columns as loaded and
\* as assigned.
_update_user_preference(p, u) ==
  [ p EXCEPT !.match = Flushed(@, u.loaded, u.match) ]

\* db.commit(): the pending UPDATEs and the inserted rows become visible.
MatchCommit(self) ==
  /\ pc[self] = "match_commit"
  /\ LET l == loc[self]
         stale == \E u \in l.pending : ~\E p \in prefs : p.id = u.id
     IN IF stale
        THEN /\ prefs' = Rollback(prefs, self)
             /\ ret' = [ ret EXCEPT ![self] = MatchReply(l, "StaleDataError", None) ]
        ELSE /\ prefs' =
                  { LET upd == { u \in l.pending : u.id = p.id }
                        q == IF upd = {} THEN p
                             ELSE LET u == CHOOSE x \in upd : TRUE
                                  IN _update_user_preference(p, u)
                    IN [ q EXCEPT !.tx = IF @ = Some(self) THEN None ELSE @ ] : p \in prefs }
             /\ ret' = [ ret EXCEPT ![self] = MatchReply(l, "ok", Some(l.stats)) ]
  /\ loc' = Set(self, Idle)
  /\ pc' = Goto(self, "idle")
  /\ UNCHANGED <<recipes, mig, nextRid, nextPid, clock>>
  /\ UNCHANGED <<users, started, uq_external_recipe>>

Match(self) ==
  \/ \E u \in Users, pantry_items \in Pantries, expiring_days \in ExpiringDays :
       MatchStart(self, u, pantry_items, expiring_days)
  \/ MatchQuery(self)
  \/ MatchWrite(self)
  \/ MatchCommit(self)

(***************************************************************************)
(* pg_auth.delete_user: one session, one transaction.  db.delete(user)     *)
(* follows the relationships of User: recipe_preferences is deleted with   *)
(* the user (cascade "all, delete-orphan", ondelete CASCADE), and          *)
(* imported_recipes has no delete cascade, so the recipes stay and their   *)
(* imported_by_user_id is set to NULL (ondelete SET NULL).                 *)
(***************************************************************************)
\* Variant: the recipes a user imported are deleted with the user.
DeleteImportedRecipes(R, u) == { r \in R : r.imported_by_user_id # Some(u) }

\* The recipes table after the delete of user u.
NullifyImportedBy(R, u) ==
  { [ r EXCEPT !.imported_by_user_id = IF @ = Some(u) THEN None ELSE @ ] : r \in R }

\* The preference rows after the delete of user u.
CascadePreferences(P, u) == { p \in P : p.user_id # u }

\* The DELETE of the users row waits for the open transactions that hold
\* an uncommitted preference row of the user.
DeleteUser(self, u) ==
  /\ pc[self] = "idle"
  /\ mig = "done"
  /\ Dispatch(self)
  /\ started' = started + 1
  /\ IF u \in users
     THEN /\ \A p \in prefs : p.user_id = u => IsNull(p.tx)
          /\ users' = users \ { u }
          /\ prefs' = CascadePreferences(prefs, u)
          /\ recipes' = NullifyImportedBy(recipes, u)
          /\ ret' = [ ret EXCEPT ![self] =
                        [ kind |-> "delete_user", status |-> "ok", user_id |-> u ] ]
     ELSE /\ ret' = [ ret EXCEPT ![self] =
                        [ kind |-> "delete_user", status |-> "NotFound", user_id |-> u ] ]
          /\ UNCHANGED <<users, prefs, recipes>>
  /\ UNCHANGED <<uq_external_recipe, mig, nextRid, nextPid, clock, pc, loc>>

(***************************************************************************)
(* Recipe.to_dict and GET /recipes/{recipe_id}: the recipe read model.     *)
(***************************************************************************)
\* datetime.isoformat(): the text of a timestamp.
isoformat(t) == << "iso", t >>

\* x.isoformat() if x else None
IsoOrNone(o) == IF IsNull(o) THEN None ELSE Some(isoformat(Val(o)))

\* val or []
OrEmpty(o) == IF IsNull(o) THEN << >> ELSE Val(o)

\* Recipe.to_dict(user_prefs): the columns of the recipe row, and the
\* per-user fields, taken from the preference row when there is one.
to_dict(r, user_prefs) ==
  LET shared ==
        [ id |-> r.id, name |-> r.name, ingredients |-> r.ingredients,
          created_at |-> isoformat(r.created_at),
          external_provider |-> r.external_provider,
          imported_by_user_id |-> r.imported_by_user_id ]
      fields ==
        IF IsNull(user_prefs)
        THEN [ match_percentage |-> 0, uses_expiring_items |-> FALSE,
               expiring_ingredient_count |-> 0, available_ingredient_count |-> 0,
               missing_ingredient_count |-> 0,
               missing_ingredients |-> << >>, expiring_ingredients |-> << >>,
               notes |-> None, favorite |-> FALSE, times_cooked |-> 0,
               last_cooked |-> None ]
        ELSE LET m == Val(user_prefs).match
                 o == Val(user_prefs).owned
             IN [ match_percentage |-> OrZero(m.match_percentage),
                  uses_expiring_items |-> OrFalse(m.uses_expiring_items),
                  expiring_ingredient_count |-> OrZero(m.expiring_ingredient_count),
                  available_ingredient_count |-> OrZero(m.available_ingredient_count),
                  missing_ingredient_count |-> OrZero(m.missing_ingredient_count),
                  missing_ingredients |-> OrEmpty(m.missing_ingredients),
                  expiring_ingredients |-> OrEmpty(m.expiring_ingredients),
                  notes |-> o.notes, favorite |-> OrFalse(o.favorite),
                  times_cooked |-> OrZero(o.times_cooked),
                  last_cooked |-> IsoOrNone(o.last_cooked) ]
  IN [ shared |-> shared, fields |-> fields ]

\* Variant: the read looks the preference up by recipe_id alone.
get_recipe_of_anyone(R, P, self, u, r) ==
  IF \E x \in R : x.id = r
  THEN [ kind |-> "get_recipe", status |-> "ok", user_id |-> u, recipe_id |-> r,
         body |-> Some(to_dict(CHOOSE x \in R : x.id = r,
                               First(FindPrefAnyUser(Visible(P, self), u, r)))) ]
  ELSE [ kind |-> "get_recipe", status |-> "NotFound", user_id |-> u, recipe_id |-> r,
         body |-> None ]

\* The response of get_recipe to user u in session self: 404 for an id
\* that is not in the catalog, else the recipe with u's preferences.
get_recipe(R, P, self, u, r) ==
  IF \E x \in R : x.id = r
  THEN [ kind |-> "get_recipe", status |-> "ok", user_id |-> u, recipe_id |-> r,
         body |-> Some(to_dict(CHOOSE x \in R : x.id = r,
                               get_user_preference(P, self, u, r))) ]
  ELSE [ kind |-> "get_recipe", status |-> "NotFound", user_id |-> u, recipe_id |-> r,
         body |-> None ]

GetRecipe(self, u, r) ==
  /\ pc[self] = "idle"
  /\ u \in users
  /\ mig = "done"
  /\ Dispatch(self)
  /\ started' = started + 1
  /\ ret' = [ ret EXCEPT ![self] = get_recipe(recipes, prefs, self, u, r) ]
  /\ UNCHANGED <<users, recipes, prefs, uq_external_recipe, mig, nextRid, nextPid,
                 clock, pc, loc>>

(***************************************************************************)
(* The whole system: the migration at start, then concurrent requests.     *)
(***************************************************************************)
\* The tables the system specification starts from: a new database, and a
\* legacy table with two copies of one external recipe, owned by two users,
\* and a manual recipe.
SeedTables ==
  { {},
    { RecipeRow(3, Some("u1"), << None, None >>, "Toast", Some(Ingredients2), 3, PlainLegacy),
      RecipeRow(1, Some("u2"), << Some("mealie"), Some("e1") >>, "Pancakes",
                Some(Ingredients1), 2, RichLegacy(1)),
      RecipeRow(2, Some("u1"), << Some("mealie"), Some("e1") >>, "Pancakes",
                Some(Ingredients1), 1, RichLegacy(2)) } }

Init ==
  /\ recipes \in SeedTables
  /\ uq_external_recipe = CreateAll(recipes)
  /\ nextRid = Cardinality(recipes) + 1
  /\ clock = Cardinality(recipes) + 1
  /\ InitCommon

Next ==
  \/ MigratePrefs
  \/ DedupPass
  \/ \E self \in Procs : Import(self)
  \/ \E self \in Procs : Route(self)
  \/ \E self \in Procs : Match(self)
  \/ \E self \in Procs, u \in Users : DeleteUser(self, u)

Spec == Init /\ [][Next]_vars

\* The system with the read of a recipe among its requests.
NextRead ==
  \/ Next
  \/ \E self \in Procs, u \in Users : \E r \in RecipeIds : GetRecipe(self, u, r)

SpecRead == Init /\ [][NextRead]_vars

(***************************************************************************)
(* The text functions on their own: calls of _normalize_ingredient_name    *)
(* and _fuzzy_match_ingredient with arguments from bounded sets.           *)
(***************************************************************************)
MaxName == 4
MaxPantry == 2

\* The characters of the generated names, and the names of up to n of them.
NameAlphabet == { "a", "e", "i", "s", "y", " " }
NamesUpTo(n) == UNION { [ 1..k -> NameAlphabet ] : k \in 0..n }

\* Names as recipes and pantry items carry them.
SampleNames ==
  { <<"F","r","e","s","h"," ","E","g","g","s">>,
    <<"M","i","l","k"," ","(","2","%",")">>,
    <<"R","a","w"," ","P","e","a","s">>,
    <<"E","g","g","s">>,
    <<"B","e","r","r","i","e","s">>,
    <<"G","l","a","s","s","e","s">>,
    <<"M","o","l","a","s","s","e","s">>,
    <<"P","e","a","s">> }

IngredientSamples ==
  { <<"m","i","l","k">>,
    <<"e","g","g"," ","w","h","i","t","e","s">>,
    <<"n","u","t"," ","o","i","l">>,
    <<"o","l","i","v","e"," ","o","i","l">>,
    <<"o","i","l">>,
    <<"r","e","d"," ","b","e","l","l"," ","j","a","m">>,
    <<"f","r","e","s","h"," ","b","a","s","i","l">>,
    <<"r","a","w">>,
    <<"s","u","g","a","r">> }

RawPantryNames ==
  { <<"W","h","o","l","e"," ","M","i","l","k">>,
    <<"E","g","g","s">>,
    <<"S","e","s","a","m","e"," ","O","i","l">>,
    <<"W","a","l","n","u","t"," ","O","i","l">>,
    <<"B","e","l","l"," ","J","a","r">>,
    <<"R","i","c","e">>,
    <<"R","a","w">>,
    <<"O","i","l">>,
    <<"G","l","a","s","s","e","s">>,
    <<"G","l","a","s","s"," ","J","a","r">> }

\* The pantry sets _normalize_pantry_items can produce, of up to n names.
PantrySets(n) ==
  { S \in SUBSET { _normalize_ingredient_name(x) : x \in RawPantryNames } :
      Cardinality(S) <= n }

NormalizeCall(name) == [ op |-> "normalize", name |-> name ]
FuzzyCall(ingredient_name, pantry_ingredients) ==
  [ op |-> "fuzzy_match", ingredient_name |-> ingredient_name,
    pantry_ingredients |-> pantry_ingredients ]

\* Recipes and pantry items for the calls of _match_recipe.
Nameless == [ quantity |-> 1, unit |-> "cup", name |-> None ]
DateZ(d) == Some([ kind |-> "date_z", day |-> d ])
NoDate == Some([ kind |-> "bad", day |-> 0 ])
NotText == Some([ kind |-> "number", day |-> 0 ])

RecipeSamples ==
  { None, Some(<< >>), Some(Ingredients1), Some(Ingredients2),
    Some(Ingredients1 \o << Ingredient("Flour") >>),
    Some(<< Ingredient("Oil") >>),
    Some(<< Ingredient("Oil"), Ingredient("Sugar") >>),
    Some(<< Nameless, Ingredient(""), Ingredient("Fresh") >>) }

PantryItemSamples ==
  { PantryItem("milk", Date(2)), PantryItem("egg", Date(10)), PantryItem("flour", None),
    PantryItem("Fresh", Date(2)), PantryItem("Sesame Oil", DateZ(2)),
    PantryItem("Walnut Oil", NoDate), PantryItem("egg", NotText),
    PantryItem("", Date(2)) }

\* The pantry snapshots: lists of up to n items, and the sample pantries.
PantryLists(n) ==
  UNION { [ 1..k -> PantryItemSamples ] : k \in 0..n } \cup Pantries \cup
  { << PantryItem("milk", Date(2)), PantryItem("egg", Date(2)), PantryItem("flour", None) >>,
    << PantryItem("milk", Date(10)), PantryItem("egg", Date(10)), PantryItem("flour", None) >> }

Thresholds == { 7, 1000 }

MatchRecipeCall(ingredients, pantry_items, expiring_days) ==
  [ op |-> "match_recipe", ingredients |-> ingredients, pantry_items |-> pantry_items,
    expiring_days |-> expiring_days ]

TextCalls ==
  { NormalizeCall(x) : x \in NamesUpTo(MaxName) \cup SampleNames }
    \cup { FuzzyCall(x, S) : x \in IngredientSamples, S \in PantrySets(MaxPantry) }
    \cup UNION { { FuzzyCall(x, S) : x \in S } : S \in PantrySets(MaxPantry) }
    \cup { MatchRecipeCall(x, items, d) :
             x \in RecipeSamples, items \in PantryLists(MaxPantry), d \in Thresholds }

InitText ==
  /\ users = Users
  /\ recipes = {}
  /\ prefs = {}
  /\ uq_external_recipe = TRUE
  /\ mig = "done"
  /\ nextRid = 1
  /\ nextPid = 1
  /\ clock = 1
  /\ started = 0
  /\ ret = [ p \in Procs |-> NoResult ]
  /\ \E self \in Procs, call \in TextCalls :
       /\ loc = [ p \in Procs |-> IF p = self THEN call ELSE Idle ]
       /\ pc = [ p \in Procs |-> IF p = self THEN call.op ELSE "idle" ]

\* _normalize_ingredient_name applied to the name at hand; the caller then
\* passes the result to the function once more.
Normalize(self) ==
  /\ pc[self] \in { "normalize", "normalize_again" }
  /\ LET l == loc[self]
         value == _normalize_ingredient_name(l.name)
     IN /\ ret' = [ ret EXCEPT ![self] =
                      [ kind |-> "normalize", again |-> pc[self] = "normalize_again",
                        name |-> l.name, value |-> value ] ]
        /\ IF pc[self] = "normalize"
           THEN /\ loc' = Set(self, [ l EXCEPT !.name = value ])
                /\ pc' = Goto(self, "normalize_again")
           ELSE /\ loc' = Set(self, Idle)
                /\ pc' = Goto(self, "idle")
  /\ UNCHANGED <<users, recipes, prefs, uq_external_recipe, mig, nextRid, nextPid,
                 clock, started>>

\* _fuzzy_match_ingredient returns one of the values it can return.
FuzzyMatch(self) ==
  /\ pc[self] = "fuzzy_match"
  /\ LET l == loc[self]
     IN \E m \in _fuzzy_match_ingredient(l.ingredient_name, l.pantry_ingredients) :
          ret' = [ ret EXCEPT ![self] =
                     [ kind |-> "fuzzy_match", ingredient_name |-> l.ingredient_name,
                       pantry_ingredients |-> l.pantry_ingredients, match |-> m ] ]
  /\ loc' = Set(self, Idle)
  /\ pc' = Goto(self, "idle")
  /\ UNCHANGED <<users, recipes, prefs, uq_external_recipe, mig, nextRid, nextPid,
                 clock, started>>

\* calculate_matches for one recipe: the pantry sets, then _match_recipe
\* returns one of the records it can return.
MatchRecipe(self) ==
  /\ pc[self] = "match_recipe"
  /\ LET l == loc[self]
         pantry_ingredients == _normalize_pantry_items(l.pantry_items)
         expiring_soon == _get_expiring_items(l.pantry_items, l.expiring_days)
     IN \E match_result \in _match_recipe(l.ingredients, pantry_ingredients, expiring_soon) :
          ret' = [ ret EXCEPT ![self] =
                     [ kind |-> "match_recipe", ingredients |-> l.ingredients,
                       pantry_items |-> l.pantry_items, expiring_days |-> l.expiring_days,
                       pantry_ingredients |-> pantry_ingredients,
                       expiring_items |-> expiring_soon, match_result |-> match_result ] ]
  /\ loc' = Set(self, Idle)
  /\ pc' = Goto(self, "idle")
  /\ UNCHANGED <<users, recipes, prefs, uq_external_recipe, mig, nextRid, nextPid,
                 clock, started>>

NextText ==
  \/ \E self \in Procs : Normalize(self)
  \/ \E self \in Procs : FuzzyMatch(self)
  \/ \E self \in Procs : MatchRecipe(self)

SpecText == InitText /\ [][NextText]_vars

(***************************************************************************)
(* The dedup pass (SpecMig): the step from mig = "prefs" to mig = "done".  *)
(***************************************************************************)
DedupStep == mig = "prefs" /\ mig' = "done"

\* The rows sharing the non-null key of r, the duplicate groups, and the
\* oldest row of a group.
RecipeGroup(R, r) == { x \in R : HasKey(x) /\ SameKey(x, r) }
InDupeGroup(R, r) == HasKey(r) /\ Cardinality(RecipeGroup(R, r)) > 1
Oldest(G) == CHOOSE x \in G : \A y \in G : x.created_at <= y.created_at
CanonicalOf(R, r) == Oldest(RecipeGroup(R, r))
OnGroup(P, G) == { p \in P : \E x \in G : x.id = p.recipe_id }
OutsideGroups(P, R) ==
  { p \in P : \A r \in R : r.id = p.recipe_id => ~InDupeGroup(R, r) }

\* C4: when the dedup pass collapses a duplicate group, a user who had
\* favorite = true, notes or times_cooked > 0 on any recipe of the group has
\* afterwards a preference row on the canonical recipe with favorite = true,
\* those notes and a times_cooked at least as large.
C4_NoAnnotationLost ==
  [][DedupStep =>
       \A p \in prefs : \A r \in recipes :
         (r.id = p.recipe_id /\ InDupeGroup(recipes, r)) =>
           LET after == FindPref(prefs', p.user_id, CanonicalOf(recipes, r).id)
           IN /\ after # {}
              /\ \A a \in after :
                   /\ (p.owned.favorite = Some(TRUE) => a.owned.favorite = Some(TRUE))
                   /\ (~IsNull(p.owned.notes) => a.owned.notes = p.owned.notes)
                   /\ OrZero(a.owned.times_cooked) >= OrZero(p.owned.times_cooked)]_vars

\* A legacy table in which one user holds both copies of a recipe, the
\* annotations on the newer copy: after the pass they are gone.
C4_Witness ==
  /\ mig = "prefs"
  /\ \E p \in prefs, q \in prefs : \E r \in recipes :
       /\ p.user_id = q.user_id /\ p.recipe_id # q.recipe_id
       /\ r.id = p.recipe_id /\ InDupeGroup(recipes, r)
       /\ q.recipe_id = CanonicalOf(recipes, r).id
       /\ p.owned.favorite = Some(TRUE) /\ q.owned.favorite = Some(FALSE)

\* C5: after the dedup pass every user with a preference row on a recipe of
\* a duplicate group has exactly one row on the canonical recipe: the row
\* the user had there, unchanged, or else a row carrying the fields of the
\* user's row on a duplicate; the canonical recipe gets no row of a user who
\* had none in the group, and no row points at a deleted recipe.
C5_RehomedPreferences ==
  [][DedupStep =>
       /\ \A r \in recipes : InDupeGroup(recipes, r) =>
            LET G == RecipeGroup(recipes, r)
                keep == Oldest(G)
                holders == { p.user_id : p \in OnGroup(prefs, G) }
            IN /\ \A u \in holders :
                    LET had == FindPref(prefs, u, keep.id)
                        has == FindPref(prefs', u, keep.id)
                    IN /\ Cardinality(has) = 1
                       /\ had # {} => has = had
                       /\ had = {} =>
                            \E d \in OnGroup(prefs, G) : \A h \in has :
                              d.user_id = u /\ h.owned = d.owned /\ h.match = d.match
               /\ \A h \in prefs' : h.recipe_id = keep.id => h.user_id \in holders
       /\ \A h \in prefs' : \E x \in recipes' : x.id = h.recipe_id]_vars

\* Two holders share a canonical recipe after the pass, one of them through a
\* re-homed row (its id was allocated by the pass) that carries annotations.
C5_Witness ==
  /\ mig = "done"
  /\ \E a \in prefs, b \in prefs :
       /\ a.recipe_id = b.recipe_id /\ a.user_id # b.user_id
       /\ a.id >= nextRid /\ b.id < nextRid
       /\ a.owned.favorite = Some(TRUE) /\ ~IsNull(a.owned.notes)

\* C6: the dedup pass keeps, of each group of rows sharing a non-null key,
\* exactly the row with the earliest created_at; rows with a null provider
\* or external id and rows with a unique key stay as they are, and so do the
\* preference rows of recipes outside the duplicate groups.
C6_KeepsOldest ==
  [][DedupStep =>
       /\ recipes' = { r \in recipes : InDupeGroup(recipes, r) => r = CanonicalOf(recipes, r) }
       /\ OutsideGroups(prefs', recipes) = OutsideGroups(prefs, recipes)]_vars

\* The pass deleted row 1, the newer copy of row 2, and left a manual recipe
\* and its preference row in place.
C6_Witness ==
  /\ mig = "done"
  /\ Cardinality(recipes) + 1 < nextRid
  /\ \E kept \in recipes : HasKey(kept) /\ kept.id = 2 /\ ~\E x \in recipes : x.id = 1
  /\ \E n \in recipes : ~HasKey(n) /\ FindPref(prefs, Val(n.user_id), n.id) # {}

(***************************************************************************)
(* Imports (Spec): the step of a run that finishes one record.             *)
(***************************************************************************)
\* self finishes the record under its hand with the update or the insert.
WritesRecord(self) == pc[self] = "import_write" /\ pc'[self] # "import_write"
CurrentRecord(self) == loc[self].recipes[loc[self].i]
KeyRows(R, rec) ==
  { r \in R : /\ r.external_provider = Some(rec.provider)
              /\ r.external_id = Some(rec.external_id) }

PrefRequests == RouteOps \cup { "match" }

\* C7: a request that calls get_or_create while another creates the row of
\* the same (user_id, recipe_id) completes: no uniqueness-constraint
\* failure reaches its caller (the caller being a user that exists).
C7_NoConstraintFailure ==
  \A p \in Procs :
    (ret[p].kind \in PrefRequests /\ ret[p].user_id \in users)
      => ret[p].status # "IntegrityError"

\* C8: in every reachable state there is at most one preference row per
\* (user_id, recipe_id).
C8_OnePreferencePerPair ==
  \A a \in prefs, b \in prefs :
    (a.user_id = b.user_id /\ a.recipe_id = b.recipe_id) => a = b

\* A second insert of a pair was attempted and rejected; the row of the
\* first insert is in the table.
C8_Witness ==
  \E p \in Procs :
    /\ ret[p].kind \in RouteOps
    /\ ret[p].status = "IntegrityError"
    /\ Cardinality(FindPref(prefs, ret[p].user_id, ret[p].recipe_id)) = 1

\* The postcondition of a run of calculate_matches by self that returns
\* with this step: every recipe of the catalog has exactly one row of the
\* user, with the cached match fields _match_recipe gives for the recipe,
\* and both counters equal the size of the catalog.
Returns(self) ==
  /\ pc[self] = "match_commit" /\ pc'[self] = "idle"
  /\ ret'[self].kind = "match" /\ ret'[self].status = "ok"

MatchPost(self) ==
  /\ \A r \in recipes' :
       LET rows == FindPref(prefs', loc[self].user_id, r.id)
       IN /\ Cardinality(rows) = 1
          /\ \A row \in rows :
               row.match \in { MatchColumns(m) :
                                 m \in MatchResults(r.ingredients, loc[self].pantry_items,
                                                    loc[self].expiring_days) }
  /\ Val(ret'[self].stats).total_recipes = Cardinality(recipes')
  /\ Val(ret'[self].stats).recipes_updated = Cardinality(recipes')

\* No request overlapped the run: no other worker has served one.
Unshared(self) ==
  \A p \in Procs \ {self} : pc[p] = "idle" /\ ret[p] = NoResult

C10_PartialSuccess ==
  \A p \in Procs :
    (ret[p].kind = "match" /\ ret[p].user_id \in users)
      => (ret[p].status = "ok" /\ ~IsNull(ret[p].stats))

(***************************************************************************)
(* Imports (Spec): the records of one batch.                               *)
(***************************************************************************)
\* self finishes the record under its hand, with whatever outcome.
FinishesRecord(self) ==
  /\ loc[self].op = "import" /\ loc'[self].op = "import"
  /\ loc'[self].i = loc[self].i + 1

\* The outcome _import_recipe gives the record on the tables as they are,
\* in a session that has handled no other record.
OutcomeAlone(self) ==
  LET l == loc[self]
      rec == CurrentRecord(self)
  IN IF _find_existing_recipe(recipes, l.user_id, rec.provider, rec.external_id) # {}
     THEN "updated"
     ELSE IF ViolatesExternalKey(recipes, NewRecipe(nextRid, l.user_id, rec, clock))
     THEN "failed"
     ELSE "imported"

MatchStep(self) == loc[self].op = "match" /\ pc'[self] # pc[self]

RowsOfOthers(P, u) == { p \in P : p.user_id # u }

\* Exactly two requests were served, both runs of calculate_matches, one on
\* each worker: the second was dispatched while the first was in progress.
TwoRuns ==
  /\ started = 2
  /\ \A p \in Procs : pc[p] = "idle" /\ ret[p].kind = "match"

\* The cached match columns the run answered by reply writes for a recipe.
ColumnsOf(reply, ingredients) ==
  { MatchColumns(m) :
      m \in MatchResults(ingredients, reply.pantry_items, reply.expiring_days) }

\* What a run alone leaves and returns: one row of the user per recipe with
\* the columns of its own result, and both counters at the catalog size.
AsAlone(reply) ==
  /\ reply.status = "ok"
  /\ \A r \in recipes :
       LET rows == FindPref(prefs, reply.user_id, r.id)
       IN /\ Cardinality(rows) = 1
          /\ \A row \in rows : row.match \in ColumnsOf(reply, r.ingredients)
  /\ Val(reply.stats).total_recipes = Cardinality(recipes)
  /\ Val(reply.stats).recipes_updated = Cardinality(recipes)

TwoUsersRuns == TwoRuns /\ ret["p1"].user_id # ret["p2"].user_id

\* C12: a step of run_match for user u leaves every Recipe row and every
\* preference row of another user as it was; when two overlapping runs of
\* different users have returned, both succeeded and each user's rows and
\* counters are those of a run alone.
C12_TouchesOwnRowsOnly ==
  [][/\ \A self \in Procs :
          MatchStep(self) =>
            /\ recipes' = recipes
            /\ RowsOfOthers(prefs', loc[self].user_id) = RowsOfOthers(prefs, loc[self].user_id)
     /\ TwoUsersRuns' => (\A p \in Procs : AsAlone(ret[p]))']_vars

\* Two overlapping runs of different users have both returned; the two
\* users hold different match data on the same recipe.
C12_Witness ==
  /\ TwoUsersRuns
  /\ \E a \in prefs, b \in prefs :
       /\ a.recipe_id = b.recipe_id
       /\ a.user_id = ret["p1"].user_id /\ b.user_id = ret["p2"].user_id
       /\ a.match # b.match
       /\ a.match.match_percentage = Some(6667)

TwoRunsOfOneUser == TwoRuns /\ ret["p1"].user_id = ret["p2"].user_id

\* C13: when two overlapping runs of run_match for one user have returned,
\* both succeeded, and for each recipe the user's cached match columns are
\* those one of the two runs wrote.
C13_SameUserLastWriteWins ==
  TwoRunsOfOneUser =>
    /\ \A p \in Procs : ret[p].status = "ok"
    /\ \A r \in recipes : \A row \in FindPref(prefs, ret["p1"].user_id, r.id) :
         \E p \in Procs : row.match \in ColumnsOf(ret[p], r.ingredients)

(***************************************************************************)
(* Preference rows (Spec): the columns each writer touches.                *)
(***************************************************************************)
\* A step of toggle_favorite, update_recipe_notes or mark_cooked by self.
RouteStep(self) == loc[self].op \in RouteOps /\ pc'[self] # pc[self]

Created(P, Q) == { q \in Q : \A p \in P : p.id # q.id }

\* C14: a step of run_match leaves favorite, notes, times_cooked and
\* last_cooked of every preference row as they were (a row it creates has
\* the column defaults); a step of toggle_favorite, update_recipe_notes or
\* mark_cooked leaves the cached match columns of every row as they were
\* (a row it creates has the column defaults).
C14_WritersFrames ==
  [][\A self \in Procs :
       /\ MatchStep(self) =>
            /\ \A p \in prefs, q \in prefs' : q.id = p.id => q.owned = p.owned
            /\ \A q \in Created(prefs, prefs') :
                 q.owned = [ favorite |-> Some(FALSE), notes |-> None,
                             times_cooked |-> Some(0), last_cooked |-> None ]
       /\ RouteStep(self) =>
            /\ \A p \in prefs, q \in prefs' : q.id = p.id => q.match = p.match
            /\ \A q \in Created(prefs, prefs') :
                 /\ IsNull(q.match.match_percentage)
                 /\ IsNull(q.match.missing_ingredients)
                 /\ IsNull(q.match.expiring_ingredients)]_vars

\* A row carries both a note written by update_recipe_notes and the match
\* data of a run of calculate_matches that updated the existing row.
C14_Witness ==
  \E row \in prefs :
    /\ row.owned.notes = Some(<<"note", 1>>)
    /\ row.match.match_percentage = Some(6667)
    /\ IsNull(row.tx)
    /\ \E p \in Procs : ret[p].kind = "match" /\ ret[p].status = "ok"
    /\ \E p \in Procs : ret[p].kind = "update_recipe_notes" /\ ret[p].status = "ok"

(***************************************************************************)
(* Preference rows (Spec): the same call made twice in a row.              *)
(***************************************************************************)
\* self is serving the second request of the system, the first was served
\* by self too and succeeded, and the two requests are the same call: the
\* same operation, user and recipe (notes text, pantry and window).
Repeats(self) ==
  /\ started = 2
  /\ Unshared(self)
  /\ ret[self].kind = loc[self].op
  /\ ret[self].status = "ok"
  /\ ret[self].user_id = loc[self].user_id
  /\ loc[self].op \in RouteOps =>
       /\ ret[self].recipe_id = loc[self].recipe_id
       /\ ret[self].notes = loc[self].notes
  /\ loc[self].op = "match" =>
       /\ ret[self].pantry_items = loc[self].pantry_items
       /\ ret[self].expiring_days = loc[self].expiring_days

\* The step with which the second call takes effect.
SecondWrite(self) ==
  /\ Repeats(self)
  /\ \/ RouteStep(self)
     \/ MatchStep(self) /\ pc[self] = "match_commit"

\* favorite, notes, cook count and cached match columns of a row.
Fields(row) ==
  << row.owned.favorite, row.owned.notes, row.owned.times_cooked, row.match >>

\* C15 as stated: the second of two identical calls in a row leaves
\* favorite, notes, cook count and cached match columns of every preference
\* row as the first call left them, whatever the operation.
C15_AllIdempotent ==
  [][\A self \in Procs :
       SecondWrite(self) =>
         \A p \in prefs : \E q \in prefs' : q.id = p.id /\ Fields(q) = Fields(p)]_vars

\* C15, amended: the second of two identical calls creates no row;
\* update_recipe_notes and run_match (get_or_create and the same match
\* result applied again) leave every row as the first call left it;
\* toggle_favorite flips the flag back and mark_cooked adds one again.
C15_IdempotentWrites ==
  [][\A self \in Procs :
       SecondWrite(self) =>
         /\ { q.id : q \in prefs' } = { p.id : p \in prefs }
         /\ loc[self].op \in { "update_recipe_notes", "match" } => prefs' = prefs
         /\ loc[self].op = "toggle_favorite" =>
              \A q \in FindPref(prefs', loc[self].user_id, loc[self].recipe_id) :
                q.owned.favorite = Some(~Val(Val(ret[self].owned).favorite))
         /\ loc[self].op = "mark_cooked" =>
              \A q \in FindPref(prefs', loc[self].user_id, loc[self].recipe_id) :
                Val(q.owned.times_cooked) = Val(Val(ret[self].owned).times_cooked) + 1]_vars

\* The second of two identical update_recipe_notes calls has loaded the row
\* the first call wrote and is about to write it again.
C15_Witness ==
  \E self \in Procs :
    /\ Repeats(self)
    /\ pc[self] = "route_write"
    /\ loc[self].op = "update_recipe_notes"
    /\ ~IsNull(loc[self].pref)
    /\ Val(loc[self].pref).owned.notes = Some(loc[self].notes)

(***************************************************************************)
(* toggle_favorite (Spec).                                                 *)
(***************************************************************************)
\* self answers a toggle_favorite request with NotFound.
TogglesNotFound(self) ==
  /\ ret'[self] # ret[self]
  /\ ret'[self].kind = "toggle_favorite"
  /\ ret'[self].status = "NotFound"

\* self passes the recipe check of a toggle_favorite request.
TogglesFound(self) ==
  pc[self] = "idle" /\ pc'[self] = "route_write" /\ loc'[self].op = "toggle_favorite"

\* self writes and answers a toggle_favorite request.
TogglesWrite(self) == RouteStep(self) /\ loc[self].op = "toggle_favorite"

\* The user still exists and the table still holds for (user, recipe) what
\* the handler read.
Fresh(self) ==
  /\ loc[self].user_id \in users
  /\ First(FindPref(prefs, loc[self].user_id, loc[self].recipe_id)) = loc[self].pref

\* The favorite flag of the user's row, an absent row counting as false.
FavoriteOf(P, u, r) ==
  \E row \in FindPref(P, u, r) : row.owned.favorite = Some(TRUE)

\* C16: toggle_favorite answers NotFound exactly for a recipe id that is
\* not in the catalog, and then no preference row is created or changed;
\* for a recipe of the catalog it leaves the rows of other users as they
\* were, and, the row being as the handler read it, it succeeds, the user's
\* flag becomes the opposite (true for an absent row) and is the value
\* returned.
C16_ToggleFavorite ==
  [][\A self \in Procs :
       /\ TogglesNotFound(self) =>
            /\ ~\E x \in recipes : x.id = ret'[self].recipe_id
            /\ prefs' = prefs
       /\ TogglesFound(self) =>
            /\ \E x \in recipes : x.id = loc'[self].recipe_id
            /\ prefs' = prefs
       /\ TogglesWrite(self) =>
            LET u == loc[self].user_id
                r == loc[self].recipe_id
            IN /\ RowsOfOthers(prefs', u) = RowsOfOthers(prefs, u)
               /\ Fresh(self) =>
                    /\ ret'[self].status = "ok"
                    /\ Cardinality(FindPref(prefs', u, r)) = 1
                    /\ FavoriteOf(prefs', u, r) = ~FavoriteOf(prefs, u, r)
                    /\ Val(ret'[self].owned).favorite = Some(FavoriteOf(prefs', u, r))]_vars

\* A first request toggled a recipe without annotations to favorite, the
\* second named an id that is not in the catalog and got NotFound.
C16_Witness ==
  /\ started = 2
  /\ \E p \in Procs :
       /\ ret[p].kind = "toggle_favorite" /\ ret[p].status = "NotFound"
       /\ ~\E x \in recipes : x.id = ret[p].recipe_id
  /\ \E row \in prefs :
       row.owned.favorite = Some(TRUE) /\ IsNull(row.owned.notes)

(***************************************************************************)
(* delete_user (Spec).                                                     *)
(***************************************************************************)
\* The step that deletes user u.
Deletes(u) == u \in users /\ u \notin users'

\* A recipe row without its audit column.
WithoutImporter(r) == [ r EXCEPT !.imported_by_user_id = None ]

ReadStep(self) == ret'[self] # ret[self] /\ ret'[self].kind = "get_recipe"

\* The per-user fields of a recipe for a user without preference row.
DefaultFields ==
  [ match_percentage |-> 0, uses_expiring_items |-> FALSE,
    expiring_ingredient_count |-> 0, available_ingredient_count |-> 0,
    missing_ingredient_count |-> 0, missing_ingredients |-> << >>,
    expiring_ingredients |-> << >>, notes |-> None, favorite |-> FALSE,
    times_cooked |-> 0, last_cooked |-> None ]

\* A step of toggle_favorite, update_recipe_notes, mark_cooked or run_match
\* that self executes for user b.
WritesFor(self, b) == (RouteStep(self) \/ MatchStep(self)) /\ loc[self].user_id = b

\* C18: what get_recipe returns to user A is determined by the recipe row
\* and A's own committed preference row; without such a row every per-user
\* field is the default; and no step of toggle_favorite, update_recipe_notes,
\* mark_cooked or run_match of another user B changes what A would read,
\* for any recipe and any session.
C18_ReadModelOwnRowOnly ==
  [][/\ \A self \in Procs : ReadStep(self) =>
          LET a == ret'[self].user_id
              r == ret'[self].recipe_id
              own == FindPref(Committed(prefs), a, r)
          IN /\ ret'[self].status = "ok" <=> \E x \in recipes : x.id = r
             /\ ret'[self].status = "ok" =>
                  /\ \E x \in recipes : x.id = r /\ Val(ret'[self].body).shared.name = x.name
                  /\ Val(ret'[self].body) =
                       to_dict(CHOOSE x \in recipes : x.id = r, First(own))
                  /\ own = {} => Val(ret'[self].body).fields = DefaultFields
     /\ \A self \in Procs, b \in Users : WritesFor(self, b) =>
          \A a \in Users \ { b } : \A x \in recipes : \A session \in Procs :
            get_recipe(recipes', prefs', session, a, x.id)
              = get_recipe(recipes, prefs, session, a, x.id)]_vars

\* User A read a recipe on which another user holds a favorite: A, who has
\* no row for it, got the defaults.
C18_Witness ==
  \E p \in Procs :
    /\ ret[p].kind = "get_recipe" /\ ret[p].status = "ok"
    /\ Val(ret[p].body).fields = DefaultFields
    /\ FindPref(prefs, ret[p].user_id, ret[p].recipe_id) = {}
    /\ \E row \in prefs :
         /\ row.recipe_id = ret[p].recipe_id
         /\ row.user_id # ret[p].user_id
         /\ row.owned.favorite = Some(TRUE)

(***************************************************************************)
(* The text functions (SpecText).                                          *)
(***************************************************************************)
\* C19: normalization is idempotent: a call of _normalize_ingredient_name
\* on a name that is itself a result of the function returns that name.
C19_NormalizeIdempotent ==
  \A p \in Procs :
    (ret[p].kind = "normalize" /\ ret[p].again) => ret[p].value = ret[p].name

\* needle occurs in hay as a run of consecutive characters.
Contains(hay, needle) ==
  \E i \in 1..(Len(hay) + 1) : \E j \in 0..Len(hay) : SubSeq(hay, i, j) = needle

\* The words of a name: its maximal runs of characters other than spaces.
WordsOf(s) ==
  { w \in { SubSeq(s, i, j) : i \in 1..Len(s), j \in 1..Len(s) } :
      /\ w # << >>
      /\ \A k \in 1..Len(w) : w[k] # " "
      /\ \E i \in 1..(Len(s) - Len(w) + 1) :
           /\ SubSeq(s, i, i + Len(w) - 1) = w
           /\ (i = 1 \/ s[i - 1] = " ")
           /\ (i + Len(w) > Len(s) \/ s[i + Len(w)] = " ") }

\* The pantry names that satisfy rule k for the ingredient n.
Satisfying(k, n, pantry) ==
  { x \in pantry :
      CASE k = 1 -> x = n
        [] k = 2 -> Contains(n, x)
        [] k = 3 -> Contains(x, n)
        [] k = 4 -> /\ WordsOf(n) # {}
                    /\ 2 * Cardinality(WordsOf(n) \cap WordsOf(x))
                         >= Cardinality(WordsOf(n)) }

Rules == 1..4

\* C20: _fuzzy_match_ingredient returns "no match" exactly when no pantry
\* name satisfies any of the four rules (exact, ingredient contains pantry
\* name, pantry name contains ingredient, word overlap of at least half of
\* the ingredient's words), and else a pantry name that satisfies the first
\* rule, in this order, that some pantry name satisfies.
C20_FirstApplicableRule ==
  \A p \in Procs : ret[p].kind = "fuzzy_match" =>
    LET n == _normalize_ingredient_name(ret[p].ingredient_name)
        pantry == ret[p].pantry_ingredients
        applicable == { k \in Rules : Satisfying(k, n, pantry) # {} }
    IN IF applicable = {}
       THEN IsNull(ret[p].match)
       ELSE LET first == CHOOSE k \in applicable : \A j \in applicable : k <= j
            IN /\ ~IsNull(ret[p].match)
               /\ Val(ret[p].match) \in Satisfying(first, n, pantry)

\* A call that fell through to the word-overlap rule: of a pantry of two
\* names one shares half of the ingredient's words and is returned; no
\* name is equal to, contained in or containing the ingredient.
C20_Witness ==
  \E p \in Procs :
    /\ ret[p].kind = "fuzzy_match"
    /\ Cardinality(ret[p].pantry_ingredients) = 2
    /\ LET n == _normalize_ingredient_name(ret[p].ingredient_name)
       IN /\ \A k \in 1..3 : Satisfying(k, n, ret[p].pantry_ingredients) = {}
          /\ ~IsNull(ret[p].match)
          /\ Satisfying(4, n, ret[p].pantry_ingredients) = { Val(ret[p].match) }

\* C21: fuzzy match is reflexive: a name of the pantry set, matched as an
\* ingredient against that set, is found by the exact-equality rule and is
\* the name returned.
C21_FuzzyReflexive ==
  \A p \in Procs :
    (ret[p].kind = "fuzzy_match" /\ ret[p].ingredient_name \in ret[p].pantry_ingredients)
      => /\ ret[p].match = Some(ret[p].ingredient_name)
         /\ _normalize_ingredient_name(ret[p].ingredient_name) = ret[p].ingredient_name

\* The ingredient list of a call of _match_recipe (a null column is empty).
ListOf(ingredients) == IF IsNull(ingredients) THEN << >> ELSE Val(ingredients)

\* h hundredths is a / n * 100 rounded to two decimals.
IsRounded(h, a, n) ==
  /\ 2 * (h * n - a * 10000) <= n
  /\ 2 * (a * 10000 - h * n) <= n

\* C22: for a recipe of n >= 1 ingredients the record has available_count +
\* missing_count = n, expiring_count <= available_count and match_percentage
\* = available_count / n * 100 rounded to two decimals (in hundredths),
\* between 0 and 100, and 100 exactly when nothing is missing; 3 of 4 give
\* 75.00 and 2 of 3 give 66.67; for no ingredients it is 0, with all counts
\* 0, empty lists and uses_expiring_items false.
C22_CountsAndPercentage ==
  \A p \in Procs : ret[p].kind = "match_recipe" =>
    LET n == Len(ListOf(ret[p].ingredients))
        m == ret[p].match_result
    IN IF n = 0
       THEN /\ m.match_percentage = 0
            /\ m.available_count = 0 /\ m.missing_count = 0 /\ m.expiring_count = 0
            /\ m.missing_ingredients = << >> /\ m.expiring_ingredients = << >>
            /\ m.uses_expiring_items = FALSE
       ELSE /\ m.available_count + m.missing_count = n
            /\ m.expiring_count <= m.available_count
            /\ IsRounded(m.match_percentage, m.available_count, n)
            /\ m.match_percentage \in 0..10000
            /\ m.match_percentage = 10000 <=> m.missing_count = 0
            /\ (n = 4 /\ m.available_count = 3) => m.match_percentage = 7500
            /\ (n = 3 /\ m.available_count = 2) => m.match_percentage = 6667

\* A recipe of four ingredients of which three are in the pantry: 75.00.
C22_Witness ==
  \E p \in Procs :
    /\ ret[p].kind = "match_recipe"
    /\ Len(ListOf(ret[p].ingredients)) = 4
    /\ ret[p].match_result.available_count = 3
    /\ ret[p].match_result.missing_count = 1
    /\ ret[p].match_result.match_percentage = 7500

\* The positions of the pantry items whose expiry_date is present, is the
\* text of a date, with or without a trailing 'Z', and is not later than
\* d days from now.
DueWithin(items, d) ==
  { j \in 1..Len(items) :
      /\ ~IsNull(items[j].expiry_date)
      /\ Val(items[j].expiry_date).kind \in { "date", "date_z" }
      /\ Val(items[j].expiry_date).day <= d }

NamedItems(items) == { j \in 1..Len(items) : ItemName(items[j]) # << >> }

RECURSIVE Keep(_, _, _)
Keep(seq, I, k) ==
  IF k > Len(seq) THEN << >>
  ELSE (IF k \in I THEN << seq[k] >> ELSE << >>) \o Keep(seq, I, k + 1)

\* The ways the ingredients of a call can be matched: per ingredient one of
\* the values the fuzzy match can return.
Matchings(ings, pantry) ==
  LET F(k) == _fuzzy_match_ingredient(IngredientName(ings[k]), pantry)
  IN { ms \in [ 1..Len(ings) -> UNION { F(k) : k \in 1..Len(ings) } ] :
         \A k \in 1..Len(ings) : ms[k] \in F(k) }

\* The record is the one the claim describes for the matching ms; an
\* ingredient is matched when the name found for it is not empty.
AsDescribed(m, ings, ms, expiring) ==
  LET matched == { k \in 1..Len(ings) : ~IsNull(ms[k]) /\ Val(ms[k]) # << >> }
      soon == { k \in matched : Val(ms[k]) \in expiring }
  IN /\ m.uses_expiring_items = (soon # {})
     /\ m.expiring_ingredients = Keep(ings, soon, 1)
     /\ m.missing_ingredients = Keep(ings, (1..Len(ings)) \ matched, 1)
     /\ m.available_count = Cardinality(matched)

MilkEggFlour(d) ==
  << PantryItem("milk", Date(d)), PantryItem("egg", Date(d)), PantryItem("flour", None) >>

\* C24: uses_expiring_items is true exactly when an ingredient is matched to
\* a pantry name of the expiring set; expiring_ingredients lists exactly
\* those ingredients and missing_ingredients exactly the unmatched ones,
\* as the recipe carries them.  With pantry milk, egg, flour and recipe
\* Whole Milk, Eggs, Sugar and threshold 7: an expiry in 10 days gives
\* 66.67, missing = [Sugar] and uses_expiring_items false; an expiry in 2
\* days gives uses_expiring_items true with Whole Milk and Eggs expiring.
C24_ExpiringAndMissing ==
  \A p \in Procs : ret[p].kind = "match_recipe" =>
    LET ings == ListOf(ret[p].ingredients)
        m == ret[p].match_result
    IN /\ \E ms \in Matchings(ings, ret[p].pantry_ingredients) :
            AsDescribed(m, ings, ms, ret[p].expiring_items)
       /\ (ings = Ingredients1 /\ ret[p].expiring_days = 7) =>
            /\ ret[p].pantry_items = MilkEggFlour(10) =>
                 /\ m.match_percentage = 6667
                 /\ m.missing_ingredients = << Ingredient("Sugar") >>
                 /\ ~m.uses_expiring_items
            /\ ret[p].pantry_items = MilkEggFlour(2) =>
                 /\ m.uses_expiring_items
                 /\ m.expiring_ingredients = << Ingredient("Whole Milk"), Ingredient("Eggs") >>

\* The second example of the claim: milk and egg expire in 2 days.
C24_Witness ==
  \E p \in Procs :
    /\ ret[p].kind = "match_recipe"
    /\ ret[p].ingredients = Some(Ingredients1)
    /\ ret[p].pantry_items = MilkEggFlour(2)
    /\ ret[p].expiring_days = 7
    /\ ret[p].match_result.uses_expiring_items
    /\ ret[p].match_result.expiring_count = 2
    /\ ret[p].match_result.missing_ingredients = << Ingredient("Sugar") >>

\* The ingredients whose name is missing, empty or normalizes to the empty
\* string.
Blank(ings) ==
  { k \in 1..Len(ings) : _normalize_ingredient_name(IngredientName(ings[k])) = << >> }

\* C28: the empty string never produces a match: a pantry whose names all
\* normalize to the empty string makes no ingredient available, and an
\* ingredient whose name is missing, empty or normalizes to the empty string
\* is reported missing, whatever the pantry holds.
C28_EmptyNeverMatches ==
  \A p \in Procs : ret[p].kind = "match_recipe" =>
    LET ings == ListOf(ret[p].ingredients)
        m == ret[p].match_result
    IN /\ ret[p].pantry_ingredients \subseteq { << >> } => m.available_count = 0
       /\ m.available_count <= Len(ings) - Cardinality(Blank(ings))
       /\ \A k \in Blank(ings) :
            \E j \in 1..Len(m.missing_ingredients) : m.missing_ingredients[j] = ings[k]

\* C29: _match_recipe is deterministic: for a recipe, a pantry name set and
\* an expiring set, every record it can return has the same
\* available_count, expiring_count, expiring_ingredients and
\* uses_expiring_items, whatever the order the pantry set is iterated in.
C29_Deterministic ==
  \A p \in Procs : ret[p].kind = "match_recipe" =>
    \A other \in _match_recipe(ret[p].ingredients, ret[p].pantry_ingredients,
                                ret[p].expiring_items) :
      /\ other.available_count = ret[p].match_result.available_count
      /\ other.expiring_count = ret[p].match_result.expiring_count
      /\ other.expiring_ingredients = ret[p].match_result.expiring_ingredients
      /\ other.uses_expiring_items = ret[p].match_result.uses_expiring_items

CookCount(P, u, r) ==
  LET row == First(FindPref(P, u, r))
  IN IF IsNull(row) THEN 0 ELSE OrZero(Val(row).owned.times_cooked)

\* Worker self answers a mark_cooked request with success.
CookedStep(self) ==
  /\ pc[self] = "route_write" /\ loc[self].op = "mark_cooked"
  /\ pc'[self] = "idle" /\ ret'[self].status = "ok"

\* C25: every successful mark_cooked raises the cook count of the caller for
\* the recipe by exactly one, also when calls overlap, and changes no other
\* cook count.
C25_CookedCountsEachCall ==
  [][ \A self \in Procs : CookedStep(self) =>
        \A u \in Users, r \in 1..MaxRecipes :
          CookCount(prefs', u, r) =
            CookCount(prefs, u, r) +
              (IF u = loc[self].user_id /\ r = loc[self].recipe_id THEN 1 ELSE 0) ]_vars

(***************************************************************************)
(* import_recipes (Spec): the preference rows.                             *)
(***************************************************************************)
\* A step of import_recipes that self executes.
ImportStep(self) == loc[self].op = "import" /\ loc'[self] # loc[self]

IdsOf(R) == { r.id : r \in R }

Raises(self) ==
  /\ MatchStep(self) /\ pc'[self] = "idle"
  /\ ret'[self].kind = "match" /\ ret'[self].status # "ok"

\* C27: the only step of a run of calculate_matches that changes the
\* committed preference rows is its commit, which comes after the last
\* recipe; every other step, the one that raises included, leaves them as
\* they were, and a run that raised leaves no row of its own behind.
C27_AllOrNothing ==
  [][\A self \in Procs :
       /\ (MatchStep(self) /\ ~Returns(self)) => Committed(prefs') = Committed(prefs)
       /\ Returns(self) => loc[self].i = Len(loc[self].recipes) + 1
       /\ Raises(self) => \A p \in prefs' : p.tx # Some(self)]_vars

\* A run raised at a later recipe after it had assigned new match data to
\* the row of an earlier one: the row still holds the former data.
C27_Witness ==
  \E p \in Procs, a \in prefs, b \in prefs, r \in recipes :
    /\ ret[p].kind = "match" /\ ret[p].status = "IntegrityError"
    /\ a.user_id = ret[p].user_id /\ b.user_id = ret[p].user_id
    /\ a.recipe_id = r.id /\ a.recipe_id < b.recipe_id
    /\ ~IsNull(a.match.match_percentage)
    /\ a.match \notin ColumnsOf(ret[p], r.ingredients)
    /\ b.match = DefaultMatch
    /\ started = 2

====
